---------------------------- MODULE Spec2Model ----------------------------
(***************************************************************************)
(* The agentic GraphRAG workflow of src/graph: one run of the compiled     *)
(* LangGraph workflow (workflow.py) over a GraphState (state.py), driven   *)
(* by planner_decide / router_next_action and the agent nodes of nodes.py. *)
(*                                                                         *)
(* Abstractions, all of data and none of control:                          *)
(*   - neo4j_results is the number of records of the list;                 *)
(*   - context is the length of the context string;                        *)
(*   - a subgraph is its node count, its relationship count and the        *)
(*     length of one rendered node line;                                   *)
(*   - texts produced by the language model are drawn from small sets;     *)
(*   - a store error always carries a non-empty message (str(e) # "").     *)
(* An exception that leaves a node leaves graph.invoke: pc = "raised".     *)
(*                                                                         *)
(* Spec follows one run of the workflow, MainSpec adds the caller of       *)
(* main.py (result, timeout, exception), and SynthSpec follows the         *)
(* synthesizer alone on concrete records and texts, with Python's dict and *)
(* str operations computed on them.  ConcSpec interleaves the steps of two *)
(* runs that share the store, each on the state dict its request built.    *)
(* CypherSpec follows the clean-up generate_cypher makes of the text the   *)
(* model returned, line by line.                                           *)
(* EmbedSpec follows the requests embed_text and embed_texts send to the   *)
(* embeddings API, texts abstracted to their lengths.                      *)
(***************************************************************************)
EXTENDS Integers, Sequences, FiniteSets, TLC

VARIABLES
    state,        \* the GraphState dict handed from node to node
    pc,           \* the node the workflow runs next, "END", or "raised"
    index_count,  \* nodes of the store that carry an embedding
    llm_calls,    \* history: calls of llm_service.interpret_results so far
    visited,      \* history: the nodes run so far, in order
    decisions,    \* history: the decisions the planner made, in order
    store_outcomes, \* history: what the store answered to each executed query
    answer_writes, \* history: assignments to state["final_answer"] so far
    session,      \* ask_question: whether the request has a session_id
    caller,       \* ask_question: "waiting" on graph.invoke, or how it returned
    response,     \* ask_question: the value returned to the client
    conversation, \* the messages conversation_service holds for the session
    synth_pc,     \* synthesizer_agent in detail: the part it runs next
    synth_results, \* synthesizer_agent: results, the records of neo4j_results
    shapes,       \* history: how each record was classified
    clean_results, \* synthesizer_agent: the normalised records
    result_data,  \* history: the records interpret_results put in its prompt
    synth_answer, \* synthesizer_agent: answer, the answer text
    interpret_calls, \* history: calls of interpret_results by this synthesizer
    runs,         \* concurrent requests: each run's position and its state dict
    dicts,        \* concurrent requests: the state dicts, by identity
    solo,         \* history: each run as it would be had it run alone
    stored,       \* history: the runs whose bootstrap stored embeddings
    gen_pc,       \* generate_cypher: the part of the clean-up it runs next
    gen_response, \* generate_cypher: response.content, the model's output
    gen_query,    \* generate_cypher: query, the stripped output
    gen_lines,    \* generate_cypher: the lines the loop has still to read
    seen_queries, \* generate_cypher: the keys of the statement lines read
    unique_lines, \* generate_cypher: the lines kept so far
    current_query, \* generate_cypher: the lines of the statement being read
    cleaned_query, \* generate_cypher: the text it returns
    emb_pc,       \* embedding_service: the call in progress and how it ended
    emb_input,    \* embedding_service: the lengths of the texts to embed
    emb_requests  \* history: the inputs of the requests sent to the API

run_vars == <<state, pc, index_count, llm_calls, visited, decisions,
              store_outcomes, answer_writes>>

main_vars == <<session, caller, response, conversation>>

synth_vars == <<synth_pc, synth_results, shapes, clean_results, result_data,
                synth_answer, interpret_calls>>

conc_vars == <<runs, dicts, solo, stored>>

gen_vars == <<gen_pc, gen_response, gen_query, gen_lines, seen_queries,
              unique_lines, current_query, cleaned_query>>

emb_vars == <<emb_pc, emb_input, emb_requests>>

vars == <<state, pc, index_count, llm_calls, visited, decisions,
          store_outcomes, answer_writes, session, caller, response,
          conversation, synth_pc, synth_results, shapes, clean_results,
          result_data, synth_answer, interpret_calls, runs, dicts, solo,
          stored, gen_pc, gen_response, gen_query, gen_lines, seen_queries,
          unique_lines, current_query, cleaned_query, emb_pc, emb_input,
          emb_requests>>

---------------------------------------------------------------------------
(* Program constants *)

MaxSteps == 6
RefinementQuota == 1
ResultCap == 100
NodeCap == 20
RelationshipCap == 30
ContextCap == 4000
TruncMarkerLen == 15
HeaderNodesLen == 6
HeaderRelsLen == 14
TopK == 3
BootstrapBatch == 10

(* Bounds of the model *)

GraphNodes == 2      \* nodes in the store that the bootstrap can embed
RelLineLen == 20     \* length of one rendered relationship line

Question == "q"

\* what the store can answer to an executed query: an exception, or a
\* record list of one of these lengths
ResultSizes == {0, 1, 100, 101, 250}
\* what generate_cypher can return (after its clean-up): empty or a query
QueryTexts == {"", "MATCH a", "MATCH b"}
\* neighbourhood sizes the store can return, and rendered node-line lengths
NodeCounts == {0, 3, 25}
RelCounts == {0, 35}
NodeLineLens == {20, 250}
\* replies of the drafting model (interpret_results), by kind:
\*   "" empty, "short" under 10 non-blank characters, "plain" free of
\*   banned phrases, "tech1" one banned phrase, "tech2" two or more of the
\*   first seven banned phrases
DraftReplies == {"", "short", "plain", "tech1", "tech2"}

Min(a, b) == IF a < b THEN a ELSE b

Count(seq, x) == Cardinality({i \in DOMAIN seq : seq[i] = x})

---------------------------------------------------------------------------
(* Python's str operations, on TLA+ strings *)

UPPERCASE == "ABCDEFGHIJKLMNOPQRSTUVWXYZ"
LOWERCASE == "abcdefghijklmnopqrstuvwxyz"

CharAt(s, i) == SubSeq(s, i, i)

\* s[i:], with i counted from 1
From(s, i) == SubSeq(s, i, Len(s))

\* s.startswith(p), s.endswith(p), p in s
StartsWith(s, p) == Len(p) <= Len(s) /\ SubSeq(s, 1, Len(p)) = p
EndsWith(s, p) ==
    Len(p) <= Len(s) /\ SubSeq(s, Len(s) - Len(p) + 1, Len(s)) = p
Contains(s, p) ==
    \E i \in 1..(Len(s) - Len(p) + 1) : SubSeq(s, i, i + Len(p) - 1) = p

LowerChar(c) ==
    IF \E i \in 1..Len(UPPERCASE) : CharAt(UPPERCASE, i) = c
    THEN CharAt(LOWERCASE, CHOOSE i \in 1..Len(UPPERCASE) : CharAt(UPPERCASE, i) = c)
    ELSE c

\* s.lower(), half by half
RECURSIVE Lower(_)
Lower(s) ==
    IF Len(s) = 0 THEN ""
    ELSE IF Len(s) = 1 THEN LowerChar(s)
    ELSE Lower(SubSeq(s, 1, Len(s) \div 2)) \o Lower(From(s, Len(s) \div 2 + 1))

\* where old first occurs in s
Find(s, old) ==
    CHOOSE i \in 1..(Len(s) - Len(old) + 1) :
        /\ SubSeq(s, i, i + Len(old) - 1) = old
        /\ \A j \in 1..(i - 1) : SubSeq(s, j, j + Len(old) - 1) # old

\* s.replace(old, new), for a non-empty old: leftmost occurrences, not
\* overlapping
RECURSIVE Replace(_, _, _)
Replace(s, old, new) ==
    IF ~Contains(s, old) THEN s
    ELSE SubSeq(s, 1, Find(s, old) - 1) \o new
           \o Replace(From(s, Find(s, old) + Len(old)), old, new)

\* s.strip(), of blanks
RECURSIVE Strip(_)
Strip(s) ==
    IF s = "" THEN ""
    ELSE IF CharAt(s, 1) = " " THEN Strip(From(s, 2))
    ELSE IF CharAt(s, Len(s)) = " " THEN Strip(SubSeq(s, 1, Len(s) - 1))
    ELSE s

\* s.split('.')[-1]
RECURSIVE LastSegment(_)
LastSegment(s) ==
    IF Contains(s, ".")
    THEN LastSegment(From(s, 1 + CHOOSE i \in 1..Len(s) : CharAt(s, i) = "."))
    ELSE s

---------------------------------------------------------------------------
(* main.py: ask_question builds the initial state *)

initial_state ==
    [ question         |-> Question,
      cypher_query     |-> "",
      neo4j_results    |-> 0,
      final_answer     |-> "",
      error            |-> "",
      query_embedding  |-> FALSE,
      similar_nodes    |-> 0,
      subgraph         |-> [nodes |-> 0, relationships |-> 0, node_line |-> 0],
      context          |-> 0,
      messages         |-> << >>,
      step             |-> 0,
      max_steps        |-> MaxSteps,
      decision         |-> "",
      refinement_count |-> 0 ]

\* the value of response while ask_question has not returned
NO_RESPONSE == [kind |-> "none"]

\* lines 131-148: with a session the question is recorded before the run
\* starts; without one (none could be created, or the history could not be
\* read) nothing is recorded
ask_question_start(has_session) ==
    /\ session = has_session
    /\ caller = "waiting"
    /\ response = NO_RESPONSE
    /\ conversation =
          IF has_session THEN <<[role |-> "user", content |-> Question]>>
          ELSE << >>

\* lines 151-177: graph.invoke is started on initial_state
RunInit ==
    /\ state = initial_state
    /\ pc = "planner_decide"
    /\ index_count \in {0, GraphNodes}
    /\ llm_calls = 0
    /\ visited = << >>
    /\ decisions = << >>
    /\ store_outcomes = << >>
    /\ answer_writes = 0

\* the synthesizer is followed record by record and text by text only under
\* SynthSpec; elsewhere its working values stay empty
SynthIdle ==
    /\ synth_pc = "idle"
    /\ synth_results = << >>
    /\ shapes = << >>
    /\ clean_results = << >>
    /\ result_data = [kind |-> "none", records |-> << >>]
    /\ synth_answer = ""
    /\ interpret_calls = 0

\* the embedding service is followed call by call only under EmbedSpec
EmbIdle ==
    /\ emb_pc = "idle"
    /\ emb_input = << >>
    /\ emb_requests = << >>

\* generate_cypher is followed line by line only under CypherSpec
GenIdle ==
    /\ gen_pc = "idle"
    /\ gen_response = ""
    /\ gen_query = ""
    /\ gen_lines = << >>
    /\ seen_queries = {}
    /\ unique_lines = << >>
    /\ current_query = << >>
    /\ cleaned_query = ""

\* concurrent requests are followed only under ConcSpec
ConcIdle ==
    /\ runs = << >>
    /\ dicts = << >>
    /\ solo = << >>
    /\ stored = {}

\* one run of the workflow, for a request that has a session
Init ==
    /\ RunInit
    /\ ask_question_start(TRUE)
    /\ SynthIdle
    /\ ConcIdle
    /\ GenIdle
    /\ EmbIdle

---------------------------------------------------------------------------
(* nodes.py: _append_message *)

\* mutant of _append_message: the new entry is put in front of the list
_append_message_InFront(msgs, role, content) ==
    <<[role |-> role, content |-> content]>> \o msgs

\* lines 397-400: the entry is appended to the list of the run state
_append_message(msgs, role, content) ==
    Append(msgs, [role |-> role, content |-> content])


---------------------------------------------------------------------------
(* nodes.py: planner_decide *)

\* mutants of BudgetExceeded: an off-by-one budget test
BudgetExceeded_OffByOne(step, max_steps) == step > max_steps + 1
BudgetExceeded_TwoLate(step, max_steps) == step > max_steps + 2

\* line 480: the step budget is exceeded
BudgetExceeded(step, max_steps) == step > max_steps

\* mutant of RefineOnError: the test of the error is inverted
RefineOnError_Inverted(refinement_count, error) ==
    refinement_count < RefinementQuota /\ error = ""

\* mutant of RefineOnError: an empty result set is refined without an error
RefineOnError_NoErrorTest(refinement_count, error) ==
    refinement_count < RefinementQuota

\* line 517: an empty result set is refined only after an error, and only
\* while no refinement was spent
RefineOnError(refinement_count, error) ==
    refinement_count < RefinementQuota /\ error # ""

\* mutant of RefineOnOversize: narrowing is allowed after one refinement
RefineOnOversize_AfterOne(refinement_count) ==
    refinement_count <= RefinementQuota

\* mutants of RefineOnOversize: the refinement count is not consulted
RefineOnOversize_Always(refinement_count) == TRUE
RefineOnOversize_Never(refinement_count) == FALSE

\* line 528: an oversized result set is refined only once
RefineOnOversize(refinement_count) == refinement_count = 0

\* mutant of Oversized: a result set of exactly the cap counts as oversized
Oversized_AtCap(results) == results >= ResultCap

\* line 526: the result set is oversized
Oversized(results) == results > ResultCap

\* mutant of Policy: once the refinement is spent, an empty result set is
\* answered instead of executed again
Policy_AnswersEmpty(context, cypher, results, error, refinement_count) ==
    IF context = 0 THEN "retrieve"
    ELSE IF cypher = "" THEN "query"
    ELSE IF results = 0 THEN
        IF RefineOnError(refinement_count, error) THEN "refine"
        ELSE IF refinement_count >= RefinementQuota THEN "answer"
        ELSE "execute"
    ELSE IF Oversized(results) THEN
        IF RefineOnOversize(refinement_count) THEN "refine" ELSE "answer"
    ELSE "answer"

\* mutant of Policy: a run without a query text is handed to the synthesizer
Policy_EmptyQueryAnswers(context, cypher, results, error, refinement_count) ==
    IF context = 0 THEN "retrieve"
    ELSE IF cypher = "" THEN "answer"
    ELSE IF results = 0 THEN
        IF RefineOnError(refinement_count, error) THEN "refine" ELSE "execute"
    ELSE IF Oversized(results) THEN
        IF RefineOnOversize(refinement_count) THEN "refine" ELSE "answer"
    ELSE "answer"

\* lines 509-542: the heuristic policy, in the order of the if/elif chain
Policy(context, cypher, results, error, refinement_count) ==
    IF context = 0 THEN "retrieve"
    ELSE IF cypher = "" THEN "query"
    ELSE IF cypher # "" /\ results = 0 THEN
        IF RefineOnError(refinement_count, error) THEN "refine" ELSE "execute"
    ELSE IF Oversized(results) THEN
        IF RefineOnOversize(refinement_count) THEN "refine" ELSE "answer"
    ELSE "answer"

\* the fixed texts of lines 489, 500 and 502 (N is len(results))
FORCED_EMPTY_MESSAGE ==
    "I couldn't find any information matching your question: 'q'. No records match the specific criteria."
FOUND_N == "I found N matching records."
FOUND_N_NO_SYNTHESIS ==
    "I found N matching records but couldn't synthesize a complete answer."

\* mutant of ForcedDraftNeeded: the empty result set is drafted too
ForcedDraftNeeded_Always(results) == TRUE

\* line 488: the forced termination drafts only from a non-empty result set
ForcedDraftNeeded(results) == results # 0

\* lines 488-502: the answer of the forced termination; reply is what
\* llm_service.interpret_results returned, or "raise"
ForcedAnswer(results, reply) ==
    IF ~ForcedDraftNeeded(results) THEN FORCED_EMPTY_MESSAGE
    ELSE IF reply = "raise" THEN FOUND_N_NO_SYNTHESIS
    ELSE IF reply = "" THEN FOUND_N
    ELSE reply

\* mutant of router_next_action: the mapping has no entry for "end", which
\* then falls to the default of mapping.get
router_next_action_NoEnd(decision) ==
    CASE decision = "retrieve" -> "retriever_agent"
      [] decision = "query"    -> "cypher_agent"
      [] decision = "refine"   -> "refine_query"
      [] decision = "execute"  -> "execute_query"
      [] OTHER                 -> "synthesizer_agent"

\* nodes.py: router_next_action
router_next_action(decision) ==
    CASE decision = "retrieve" -> "retriever_agent"
      [] decision = "query"    -> "cypher_agent"
      [] decision = "refine"   -> "refine_query"
      [] decision = "execute"  -> "execute_query"
      [] decision = "answer"   -> "synthesizer_agent"
      [] decision = "end"      -> "END"
      [] OTHER                 -> "synthesizer_agent"

\* lines 480-504: the step budget is exceeded
PlannerOverflow(step, reply) ==
    LET results == state.neo4j_results
        msgs == _append_message(state.messages, "planner", "Step budget exceeded. Ending.")
        unset == state.final_answer = ""
        drafts == unset /\ ForcedDraftNeeded(results)
    IN  /\ reply = "none" <=> ~drafts
        /\ state' = [state EXCEPT
                       !.step = step,
                       !.decision = "end",
                       !.messages = msgs,
                       !.final_answer =
                           IF unset THEN ForcedAnswer(results, reply) ELSE @]
        /\ llm_calls' = IF drafts THEN llm_calls + 1 ELSE llm_calls
        /\ answer_writes' = IF unset THEN answer_writes + 1 ELSE answer_writes
        /\ decisions' = Append(decisions, "end")
        /\ pc' = router_next_action("end")

\* lines 505-552: a decision within the budget
PlannerWithinBudget(step) ==
    LET decision == Policy(state.context, state.cypher_query,
                           state.neo4j_results, state.error,
                           state.refinement_count)
        m1 == _append_message(state.messages, "planner", decision)
        m2 == _append_message(m1, "user", state.question)
        m3 == IF state.context # 0
              THEN _append_message(m2, "context", "context[:1000]")
              ELSE m2
    IN  /\ state' = [state EXCEPT
                       !.step = step,
                       !.decision = decision,
                       !.refinement_count =
                           IF decision = "refine" THEN @ + 1 ELSE @,
                       !.messages = m3]
        /\ llm_calls' = llm_calls
        /\ answer_writes' = answer_writes
        /\ decisions' = Append(decisions, decision)
        /\ pc' = router_next_action(decision)

planner_decide ==
    /\ pc = "planner_decide"
    /\ visited' = Append(visited, "planner_decide")
    /\ UNCHANGED <<index_count, store_outcomes>>
    /\ UNCHANGED main_vars
    /\ UNCHANGED conc_vars
    /\ UNCHANGED gen_vars
    /\ UNCHANGED emb_vars
    /\ UNCHANGED synth_vars
    /\ LET step == state.step + 1
       IN  IF BudgetExceeded(step, state.max_steps)
           THEN \E reply \in DraftReplies \cup {"raise", "none"} :
                    PlannerOverflow(step, reply)
           ELSE PlannerWithinBudget(step)

---------------------------------------------------------------------------
(* nodes.py: retriever_agent and its five sub-steps *)

\* ensure_vector_index: count() = 0 bootstraps from nodes[:10]; each node's
\* embedding may fail on its own (upsert_nodes catches and continues), and
\* any failure of count / fetch_all_nodes is caught: the run state is never
\* changed.  embedded is the number of nodes the bootstrap managed to store.
ensure_vector_index(count, embedded) ==
    IF count = 0 THEN Min(embedded, BootstrapBatch) ELSE count

\* mutant of expand_traversal: the store's neighbourhood is kept whole
expand_traversal_Uncut(similar_nodes, nodes, relationships, node_line) ==
    IF similar_nodes = 0
    THEN [nodes |-> 0, relationships |-> 0, node_line |-> 0]
    ELSE [nodes |-> nodes, relationships |-> relationships,
          node_line |-> node_line]

\* expand_traversal, lines 117-128: no hit gives the empty subgraph, else
\* the store's neighbourhood cut to 20 nodes and 30 relationships
expand_traversal(similar_nodes, nodes, relationships, node_line) ==
    IF similar_nodes = 0
    THEN [nodes |-> 0, relationships |-> 0, node_line |-> 0]
    ELSE [nodes         |-> Min(nodes, NodeCap),
          relationships |-> Min(relationships, RelationshipCap),
          node_line     |-> node_line]

\* build_subgraph_context, lines 133-154: "NODES:", one line per node,
\* "RELATIONSHIPS:", one line per relationship, joined by newlines, and
\* cut to 4000 characters followed by "... (truncated)"
RenderedLen(subgraph) ==
    LET n == Min(subgraph.nodes, NodeCap)
        r == Min(subgraph.relationships, RelationshipCap)
    IN  HeaderNodesLen + n * (1 + subgraph.node_line)
          + 1 + HeaderRelsLen + r * (1 + RelLineLen)

\* mutant of build_subgraph_context: the two headings are left out, so an
\* empty subgraph renders as the empty string
build_subgraph_context_NoHeadings(subgraph) ==
    LET len == RenderedLen(subgraph) - (HeaderNodesLen + 1 + HeaderRelsLen)
    IN  IF len > ContextCap THEN ContextCap + TruncMarkerLen ELSE len

build_subgraph_context(subgraph) ==
    LET len == RenderedLen(subgraph)
    IN  IF len > ContextCap THEN ContextCap + TruncMarkerLen ELSE len

\* mutants of workflow_edge: the synthesizer loops back to the planner like
\* the other nodes; execute_query is wired to END
workflow_edge_AllBack(node) == "planner_decide"
workflow_edge_ExecuteEnds(node) ==
    IF node \in {"synthesizer_agent", "execute_query"}
    THEN "END" ELSE "planner_decide"

\* workflow.py, lines 59-64: the edge that leaves a node which returned

workflow_edge(node) ==
    IF node = "synthesizer_agent" THEN "END" ELSE "planner_decide"

\* embed_question raises when the embedding call fails; expand_traversal
\* raises when expand_subgraph reaches its fallback query, that is when
\* the APOC query failed or returned no row (~expand_ok): building the
\* fallback text (neo4j_service.py lines 58-64) evaluates n before it is
\* bound, and running it is outside the try.  ~search_ok is a failure of
\* both searches, which similarity_search turns into no hit.
retriever_agent ==
    /\ pc = "retriever_agent"
    /\ visited' = Append(visited, "retriever_agent")
    /\ UNCHANGED <<llm_calls, decisions, store_outcomes, answer_writes>>
    /\ UNCHANGED main_vars
    /\ UNCHANGED conc_vars
    /\ UNCHANGED gen_vars
    /\ UNCHANGED emb_vars
    /\ UNCHANGED synth_vars
    /\ \E embedded \in 0..GraphNodes :
          index_count' = ensure_vector_index(index_count, embedded)
    /\ \E embed_ok \in BOOLEAN, search_ok \in BOOLEAN,
          hits \in 0..TopK,
          expand_ok \in BOOLEAN,
          nodes \in NodeCounts, relationships \in RelCounts,
          node_line \in NodeLineLens :
          LET similar == IF search_ok THEN hits ELSE 0
              subgraph == expand_traversal(similar, nodes, relationships, node_line)
          IN  IF ~embed_ok THEN
                  /\ pc' = "raised"
                  /\ state' = state
              ELSE IF similar # 0 /\ ~expand_ok THEN
                  /\ pc' = "raised"
                  /\ state' = [state EXCEPT !.query_embedding = TRUE,
                                            !.similar_nodes = similar]
              ELSE
                  /\ pc' = workflow_edge("retriever_agent")
                  /\ state' = [state EXCEPT
                                 !.query_embedding = TRUE,
                                 !.similar_nodes = similar,
                                 !.subgraph = subgraph,
                                 !.context = build_subgraph_context(subgraph)]

---------------------------------------------------------------------------
(* nodes.py: cypher_agent; generate_cypher raises when the model call fails *)

cypher_agent ==
    /\ pc = "cypher_agent"
    /\ visited' = Append(visited, "cypher_agent")
    /\ UNCHANGED <<index_count, llm_calls, decisions, store_outcomes, answer_writes>>
    /\ UNCHANGED main_vars
    /\ UNCHANGED conc_vars
    /\ UNCHANGED gen_vars
    /\ UNCHANGED emb_vars
    /\ UNCHANGED synth_vars
    /\ \E text \in QueryTexts \cup {"raise"} :
          IF text = "raise"
          THEN pc' = "raised" /\ state' = state
          ELSE /\ pc' = workflow_edge("cypher_agent")
               /\ state' = [state EXCEPT !.cypher_query = text]

---------------------------------------------------------------------------
(* nodes.py: execute_neo4j_query *)

STORE_ERROR == "Neo.ClientError.Statement.SyntaxError"

\* mutant of execute_neo4j_query: the exception is swallowed unrecorded
execute_neo4j_query_ErrorDropped(s, ok, n) ==
    IF s.cypher_query = "" \/ ~ok THEN s
    ELSE [s EXCEPT !.neo4j_results = n]

\* mutant of execute_neo4j_query: a successful execution clears the error
execute_neo4j_query_ErrorCleared(s, ok, n) ==
    IF s.cypher_query = "" THEN s
    ELSE IF ~ok THEN [s EXCEPT !.error = STORE_ERROR]
    ELSE [s EXCEPT !.neo4j_results = n, !.error = ""]

\* mutant of execute_neo4j_query: a failed query is discarded with its error
execute_neo4j_query_QueryCleared(s, ok, n) ==
    IF s.cypher_query = "" THEN s
    ELSE IF ~ok THEN [s EXCEPT !.error = STORE_ERROR, !.cypher_query = ""]
    ELSE [s EXCEPT !.neo4j_results = n]

\* lines 55-68: the store raises (~ok) or returns a list of n records
execute_neo4j_query(s, ok, n) ==
    IF s.cypher_query = "" THEN s
    ELSE IF ~ok THEN [s EXCEPT !.error = STORE_ERROR]
    ELSE [s EXCEPT !.neo4j_results = n]

execute_query ==
    /\ pc = "execute_query"
    /\ visited' = Append(visited, "execute_query")
    /\ UNCHANGED <<index_count, llm_calls, decisions, answer_writes>>
    /\ UNCHANGED main_vars
    /\ UNCHANGED conc_vars
    /\ UNCHANGED gen_vars
    /\ UNCHANGED emb_vars
    /\ UNCHANGED synth_vars
    /\ \E ok \in BOOLEAN, n \in ResultSizes :
          /\ ok \/ n = 0
          /\ state' = execute_neo4j_query(state, ok, n)
          /\ store_outcomes' =
                 IF state.cypher_query = "" THEN store_outcomes
                 ELSE Append(store_outcomes, [ok |-> ok, n |-> n])
    /\ pc' = workflow_edge("execute_query")

---------------------------------------------------------------------------
(* nodes.py: refine_query *)

\* lines 412, 417, 446: the cases in which refine_query calls the model
RefineCallsModel(s) ==
    s.cypher_query # "" /\ (s.error # "" \/ s.neo4j_results = 0
                              \/ s.neo4j_results > ResultCap)

\* mutant of refine_query_state: the refiner counts its own refinements
refine_query_state_Counts(s, text) ==
    IF s.cypher_query = "" THEN s
    ELSE IF s.error # "" \/ s.neo4j_results = 0 \/ s.neo4j_results > ResultCap
    THEN [s EXCEPT !.cypher_query = text,
                   !.neo4j_results = 0,
                   !.error = "",
                   !.refinement_count = @ + 1,
                   !.messages = _append_message(@, "refiner", "Refined query")]
    ELSE s

\* mutant of refine_query_state: the result list is not reset
refine_query_state_ResultsKept(s, text) ==
    IF s.cypher_query = "" THEN s
    ELSE IF s.error # "" \/ s.neo4j_results = 0 THEN
        [s EXCEPT !.cypher_query = text,
                  !.error = "",
                  !.messages = _append_message(@, "refiner", "Refined query")]
    ELSE IF s.neo4j_results > ResultCap THEN
        [s EXCEPT !.cypher_query = text,
                  !.messages = _append_message(@, "refiner",
                                               "Refined query for specificity")]
    ELSE s

\* mutant of refine_query_state: the error of the failed execution is kept
refine_query_state_ErrorKept(s, text) ==
    IF s.cypher_query = "" THEN s
    ELSE IF s.error # "" \/ s.neo4j_results = 0 \/ s.neo4j_results > ResultCap
    THEN [s EXCEPT !.cypher_query = text,
                   !.neo4j_results = 0,
                   !.messages = _append_message(@, "refiner", "Refined query")]
    ELSE s

\* lines 412-462: text is what generate_cypher returned
refine_query_state(s, text) ==
    IF s.cypher_query = "" THEN s
    ELSE IF s.error # "" \/ s.neo4j_results = 0 THEN
        [s EXCEPT !.cypher_query = text,
                  !.neo4j_results = 0,
                  !.error = "",
                  !.messages = _append_message(@, "refiner", "Refined query")]
    ELSE IF s.neo4j_results > ResultCap THEN
        [s EXCEPT !.cypher_query = text,
                  !.neo4j_results = 0,
                  !.messages = _append_message(@, "refiner",
                                               "Refined query for specificity")]
    ELSE s

refine_query ==
    /\ pc = "refine_query"
    /\ visited' = Append(visited, "refine_query")
    /\ UNCHANGED <<index_count, llm_calls, decisions, store_outcomes, answer_writes>>
    /\ UNCHANGED main_vars
    /\ UNCHANGED conc_vars
    /\ UNCHANGED gen_vars
    /\ UNCHANGED emb_vars
    /\ UNCHANGED synth_vars
    /\ \E text \in QueryTexts \cup {"raise"} :
          IF text = "raise" /\ RefineCallsModel(state)
          THEN pc' = "raised" /\ state' = state
          ELSE /\ pc' = workflow_edge("refine_query")
               /\ state' = refine_query_state(state, text)

---------------------------------------------------------------------------
(* nodes.py: synthesizer_agent *)

\* the fixed texts of lines 337-343, 359 and 363
EMPTY_RESULT_TEMPLATE ==
    "I couldn't find any information matching your question: 'q' This might mean: ..."
FOUND_N_ERROR ==
    "I found N matching records but encountered an error interpreting them"
FOUND_N_TROUBLE ==
    "I found N matching records, but I'm having trouble summarizing them."

\* line 336: the empty result set is answered without the model
SynthNoResults(results) == results = 0

\* lines 354-363: the first draft; reply is the model's reply or "raise"
FirstDraft(reply) ==
    IF reply = "raise" THEN FOUND_N_ERROR
    ELSE IF reply \in {"", "short"} THEN FOUND_N_TROUBLE
    ELSE reply

\* line 387: two or more of the first seven banned phrases are in the draft
NeedsRegeneration(answer) == answer = "tech2"

\* lines 374-385: the substitutions applied to a draft with a banned phrase
Substituted(answer) ==
    IF answer = "tech1" THEN "tech1 after substitution" ELSE answer

synthesizer_agent ==
    /\ pc = "synthesizer_agent"
    /\ visited' = Append(visited, "synthesizer_agent")
    /\ UNCHANGED <<index_count, decisions, store_outcomes>>
    /\ UNCHANGED main_vars
    /\ UNCHANGED conc_vars
    /\ UNCHANGED gen_vars
    /\ UNCHANGED emb_vars
    /\ UNCHANGED synth_vars
    /\ IF SynthNoResults(state.neo4j_results)
       THEN /\ state' = [state EXCEPT !.final_answer = EMPTY_RESULT_TEMPLATE]
            /\ llm_calls' = llm_calls
            /\ pc' = workflow_edge("synthesizer_agent")
       ELSE \E reply \in DraftReplies \cup {"raise"},
               second \in DraftReplies \cup {"raise"} :
               LET answer == FirstDraft(reply)
               IN  IF NeedsRegeneration(answer)
                   THEN /\ llm_calls' = llm_calls + 2
                        /\ IF second = "raise"
                           THEN pc' = "raised" /\ state' = state
                           ELSE /\ pc' = workflow_edge("synthesizer_agent")
                                /\ state' = [state EXCEPT !.final_answer = second]
                   ELSE /\ llm_calls' = llm_calls + 1
                        /\ pc' = workflow_edge("synthesizer_agent")
                        /\ state' = [state EXCEPT
                                       !.final_answer = Substituted(answer)]
    /\ answer_writes' = IF pc' = "raised" THEN answer_writes ELSE answer_writes + 1

---------------------------------------------------------------------------
(* workflow.py: create_workflow wires planner_decide to the node the router
   names, every node but the synthesizer back to planner_decide, and the
   synthesizer to END *)

Next ==
    \/ planner_decide
    \/ retriever_agent
    \/ cypher_agent
    \/ execute_query
    \/ refine_query
    \/ synthesizer_agent

Spec == Init /\ [][Next]_vars

\* every node blocks on its external calls and then returns or raises, and
\* the workflow runs the next node as soon as one returns
FairSpec == Spec /\ WF_vars(Next)

---------------------------------------------------------------------------
(* main.py: ask_question waits for the run and returns *)

\* lines 250 and 260
TIMEOUT_MESSAGE ==
    "Request timed out. The query may be too complex. Please try a simpler question."
TIMEOUT_ERROR == "Timeout: Query exceeded 60 second limit"
\* str(e) of the exception that left graph.invoke
RUN_EXCEPTION == "exception raised by a step"

\* mutant of ask_question_return: there is no catch-all handler
ask_question_return_NoCatchAll(run_pc, timed_out) ==
    IF timed_out THEN "returned_timeout"
    ELSE IF run_pc = "END" THEN "returned_result"
    ELSE "escaped"

\* the return statement ask_question leaves by: line 248 when graph.invoke
\* returned, line 256 on asyncio.TimeoutError, line 270 on any other
\* exception
ask_question_return(run_pc, timed_out) ==
    IF timed_out THEN "returned_timeout"
    ELSE IF run_pc = "END" THEN "returned_result"
    ELSE "returned_error"

\* lines 232-245: the response built from the state graph.invoke returned
result_response(result) ==
    [ question     |-> result.question,
      cypher_query |-> result.cypher_query,
      answer       |-> result.final_answer,
      error        |-> result.error,
      nodes_used   |-> result.subgraph.nodes,
      similar_nodes_found |-> result.similar_nodes,
      steps_taken  |-> result.step ]

\* mutant of timeout_response: the query the run has produced so far is
\* reported
timeout_response_Partial(question) ==
    [ question     |-> question,
      cypher_query |-> state.cypher_query,
      answer       |-> TIMEOUT_MESSAGE,
      error        |-> TIMEOUT_ERROR ]

\* lines 256-262
timeout_response(question) ==
    [ question     |-> question,
      cypher_query |-> "",
      answer       |-> TIMEOUT_MESSAGE,
      error        |-> TIMEOUT_ERROR ]

\* lines 270-276
exception_response(question, error_msg) ==
    [ question     |-> question,
      cypher_query |-> "",
      answer       |-> "",
      error        |-> error_msg ]

\* conversation_service.add_message, called only when there is a session
add_message(role, content) ==
    IF session THEN Append(conversation, [role |-> role, content |-> content])
    ELSE conversation

\* lines 174-248: graph.invoke returned within the timeout
ask_question_result ==
    /\ caller = "waiting"
    /\ pc = "END"
    /\ caller' = ask_question_return(pc, FALSE)
    /\ conversation' = add_message("assistant", state.final_answer)
    /\ response' = result_response(state)
    /\ UNCHANGED session
    /\ UNCHANGED run_vars
    /\ UNCHANGED synth_vars
    /\ UNCHANGED conc_vars
    /\ UNCHANGED gen_vars
    /\ UNCHANGED emb_vars

\* lines 249-262: wait_for gave up after 60 seconds on a run that has not
\* finished; the thread of asyncio.to_thread is not stopped and goes on
\* running the workflow
ask_question_timeout ==
    /\ caller = "waiting"
    /\ pc \notin {"END", "raised"}
    /\ caller' = ask_question_return(pc, TRUE)
    /\ conversation' = add_message("system", TIMEOUT_MESSAGE)
    /\ response' = timeout_response(Question)
    /\ UNCHANGED session
    /\ UNCHANGED run_vars
    /\ UNCHANGED synth_vars
    /\ UNCHANGED conc_vars
    /\ UNCHANGED gen_vars
    /\ UNCHANGED emb_vars

\* lines 263-276: an exception left graph.invoke within the timeout
ask_question_exception ==
    /\ caller = "waiting"
    /\ pc = "raised"
    /\ caller' = ask_question_return(pc, FALSE)
    /\ conversation' = add_message("system", "Error: exception raised by a step")
    /\ response' = exception_response(Question, RUN_EXCEPTION)
    /\ UNCHANGED session
    /\ UNCHANGED run_vars
    /\ UNCHANGED synth_vars
    /\ UNCHANGED conc_vars
    /\ UNCHANGED gen_vars
    /\ UNCHANGED emb_vars

\* a request with or without a session, its run, and its caller
MainInit ==
    /\ RunInit
    /\ \E has_session \in BOOLEAN : ask_question_start(has_session)
    /\ SynthIdle
    /\ ConcIdle
    /\ GenIdle
    /\ EmbIdle

MainNext ==
    \/ planner_decide
    \/ retriever_agent
    \/ cypher_agent
    \/ execute_query
    \/ refine_query
    \/ synthesizer_agent
    \/ ask_question_result
    \/ ask_question_timeout
    \/ ask_question_exception

MainSpec == MainInit /\ [][MainNext]_vars

\* the run's thread keeps running and the caller's await always completes:
\* with the run's result or exception, or with the timeout
MainFairSpec == MainSpec /\ WF_vars(MainNext)

---------------------------------------------------------------------------
(* nodes.py: synthesizer_agent, record by record.  A dict is the sequence of
   its items in insertion order; an item holds a scalar (its text) or a
   nested dict of scalars. *)

ProcessingCap == 200

Scalar(k, v) == [key |-> k, value |-> v, dict |-> FALSE, nested |-> << >>]
Node(k, d) == [key |-> k, value |-> "", dict |-> TRUE, nested |-> d]

\* k in d, d[k], and d[k] = item
HasKey(d, k) == \E i \in DOMAIN d : d[i].key = k
Get(d, k) == d[CHOOSE i \in DOMAIN d : d[i].key = k]
Put(d, k, item) ==
    IF HasKey(d, k)
    THEN [i \in DOMAIN d |-> IF d[i].key = k THEN [item EXCEPT !.key = k] ELSE d[i]]
    ELSE Append(d, [item EXCEPT !.key = k])

\* lines 230-233
has_patient_fields(r) ==
    \E i \in DOMAIN r :
        \/ Contains(Lower(r[i].key), "firstname")
        \/ Contains(Lower(r[i].key), "lastname")

\* line 235 (and llm_service.py line 144)
aggregate_keywords ==
    <<"count", "number", "total", "sum", "avg", "average", "min", "max",
      "frequency">>

\* lines 236-237 (and llm_service.py lines 145-148)
has_aggregate(r) ==
    \E i \in DOMAIN r : \E j \in DOMAIN aggregate_keywords :
        Contains(Lower(r[i].key), aggregate_keywords[j])

\* mutant of is_aggregate: the patient fields are not looked at
is_aggregate_KeywordsOnly(r) == has_aggregate(r)

\* line 241
is_aggregate(r) == has_aggregate(r) /\ ~has_patient_fields(r)

\* mutant of clean_key: a prefixed key is kept as it is
clean_key_Verbatim(key) == key

\* lines 268-278: the key an item of the record is copied under, "" when
\* the item is not copied
clean_key(key) ==
    IF EndsWith(key, ".firstName") \/ EndsWith(key, ".lastName")
    THEN LastSegment(key)
    ELSE IF EndsWith(key, ".description") THEN "description"
    ELSE IF key = "id" \/ EndsWith(key, ".id") THEN "id"
    ELSE IF EndsWith(key, ".start") \/ EndsWith(key, ".stop")
    THEN LastSegment(key)
    ELSE IF EndsWith(key, ".reasonDescription") THEN "reason"
    ELSE ""

\* lines 261-264
direct_fields(r) ==
    LET first == IF HasKey(r, "firstName")
                 THEN Put(<< >>, "firstName", Get(r, "firstName")) ELSE << >>
    IN  IF HasKey(r, "lastName")
        THEN Put(first, "lastName", Get(r, "lastName")) ELSE first

\* lines 267-278, from item i on
RECURSIVE prefixed_fields(_, _, _)
prefixed_fields(r, i, clean_r) ==
    IF i > Len(r) THEN clean_r
    ELSE prefixed_fields(r, i + 1,
            IF clean_key(r[i].key) = "" THEN clean_r
            ELSE Put(clean_r, clean_key(r[i].key), r[i]))

\* the fields copied from a nested node, and the keys they are copied under
NODE_FIELDS ==
    << <<"firstName", "firstName">>, <<"lastName", "lastName">>,
       <<"description", "description">>, <<"id", "id">>,
       <<"start", "start">>, <<"stop", "stop">>,
       <<"reasonDescription", "reason">> >>

\* lines 287-300 and 306-319, from field j on
RECURSIVE node_fields(_, _, _)
node_fields(clean_r, node, j) ==
    IF j > Len(NODE_FIELDS) THEN clean_r
    ELSE node_fields(
            IF HasKey(node, NODE_FIELDS[j][1])
            THEN Put(clean_r, NODE_FIELDS[j][2], Get(node, NODE_FIELDS[j][1]))
            ELSE clean_r,
            node, j + 1)

\* lines 303-319, from item i on
RECURSIVE nested_fields(_, _, _)
nested_fields(r, i, clean_r) ==
    IF i > Len(r) THEN clean_r
    ELSE nested_fields(r, i + 1,
            IF r[i].dict THEN node_fields(clean_r, r[i].nested, 1) ELSE clean_r)

\* lines 328-329: the first five items, a nested value by its type name
\* (the scalars of the model are shorter than the 50 characters kept)
minimal(r) ==
    [i \in 1..Min(Len(r), 5) |->
        Scalar(r[i].key, IF r[i].dict THEN "dict" ELSE r[i].value)]

\* lines 226-331 for one record: the records appended to clean_results
clean_record(rec) ==
    IF is_aggregate(rec) THEN <<rec>>
    ELSE IF Len(rec) = 1 /\ ~rec[1].dict THEN << >>
    ELSE LET inner == IF Len(rec) = 1 THEN rec[1].nested ELSE rec
             r == SelectSeq(inner,
                     LAMBDA item : item.key \notin {"embedding", "_text_repr"})
             named == prefixed_fields(r, 1, direct_fields(r))
             clean_r == IF named = << >> /\ Len(r) > 0
                        THEN nested_fields(r, 1, << >>) ELSE named
         IN  IF clean_r # << >> THEN <<clean_r>>
             ELSE IF r # << >> THEN <<minimal(r)>>
             ELSE << >>

\* line 222
limited_results(rs) == SubSeq(rs, 1, Min(Len(rs), ProcessingCap))

\* lines 223-331
RECURSIVE normalise(_)
normalise(rs) ==
    IF rs = << >> THEN << >>
    ELSE clean_record(Head(rs)) \o normalise(Tail(rs))

\* how line 241 classified each record
classify(rs) ==
    [i \in DOMAIN rs |-> IF is_aggregate(rs[i]) THEN "aggregate" ELSE "entity"]

---------------------------------------------------------------------------
(* llm_service.py: the data interpret_results puts in its prompt *)

\* lines 158-172 for one record: only the names are kept
name_record(item) ==
    IF Len(item) = 1 /\ ~item[1].dict THEN << >>
    ELSE LET record == IF Len(item) = 1 THEN item[1].nested ELSE item
             names == direct_fields(record)
         IN  IF names # << >> THEN <<names>> ELSE << >>

RECURSIVE name_records(_)
name_records(rs) ==
    IF rs = << >> THEN << >>
    ELSE name_record(Head(rs)) \o name_records(Tail(rs))

\* lines 137-175
interpret_data(rs) ==
    IF rs = << >> THEN [kind |-> "none", records |-> << >>]
    ELSE IF has_aggregate(rs[1]) THEN [kind |-> "aggregate", records |-> rs]
    ELSE [kind |-> "names", records |-> name_records(rs)]

---------------------------------------------------------------------------
(* nodes.py: synthesizer_agent, text by text *)

MinAnswerLen == 10
RegenerationWindow == 7
RegenerationThreshold == 2

\* str(e) of a failed model call
MODEL_ERROR == "model unavailable"

\* line 359 and line 363, for n records
error_answer(n) ==
    "I found " \o ToString(n)
      \o " matching records but encountered an error interpreting them: "
      \o MODEL_ERROR
trouble_answer(n) ==
    "I found " \o ToString(n)
      \o " matching records, but I'm having trouble summarizing them. Please try rephrasing your question or asking for more specific information."

\* lines 354-363: reply is what interpret_results returned when ok
draft_answer(ok, reply, n) ==
    LET text == IF ok THEN reply ELSE error_answer(n)
    IN  IF text = "" \/ Len(Strip(text)) < MinAnswerLen
        THEN trouble_answer(n) ELSE text

\* lines 366-372
banned_phrases ==
    <<"graph context", "graph", "cypher query", "cypher", "database query",
      "query results", "the query", "nodes", "relationships", "neo4j",
      "based on the", "according to the", "the data shows",
      "the information shows", "in the context", "from the context",
      "to identify", "we need to analyze", "available information">>

\* lines 377-385: the clean-up made for a banned phrase found in the draft
substitute(phrase, text) ==
    IF phrase = "graph context"
    THEN Replace(Replace(text, "graph context", "system"),
                 "Graph context", "system")
    ELSE IF phrase \in {"cypher query", "cypher"}
    THEN Replace(Replace(Replace(Replace(text,
            "cypher query", "system"), "Cypher query", "system"),
            "cypher", ""), "Cypher", "")
    ELSE IF phrase \in {"the query", "query results", "database query"}
    THEN Replace(Replace(Replace(Replace(text,
            "query results", "results"), "Query results", "Results"),
            "the query", "the search"), "The query", "The search")
    ELSE text

\* line 387: the banned phrases among the first seven that the draft holds
technical_terms(answer_lower) ==
    Cardinality({j \in 1..RegenerationWindow :
                    Contains(answer_lower, banned_phrases[j])})

\* the loop of lines 374-390 without its break: it goes on after a
\* regeneration, still reading the lower-cased first draft
RECURSIVE filter_loop_NoBreak(_, _, _, _, _)
filter_loop_NoBreak(i, text, answer_lower, second, calls) ==
    IF i > Len(banned_phrases) THEN [answer |-> text, calls |-> calls]
    ELSE IF ~Contains(answer_lower, banned_phrases[i])
    THEN filter_loop_NoBreak(i + 1, text, answer_lower, second, calls)
    ELSE IF technical_terms(answer_lower) >= RegenerationThreshold
    THEN filter_loop_NoBreak(i + 1, second, answer_lower, second, calls + 1)
    ELSE filter_loop_NoBreak(i + 1, substitute(banned_phrases[i], text),
                             answer_lower, second, calls)

\* mutant of filter_answer: the loop does not stop at a regeneration
filter_answer_NoBreak(text, second) ==
    filter_loop_NoBreak(1, text, Lower(text), second, 0)

\* lines 374-390 from phrase i on: answer_lower is computed once, before
\* the loop; second is what the regenerating call returns
RECURSIVE filter_loop(_, _, _, _, _)
filter_loop(i, text, answer_lower, second, calls) ==
    IF i > Len(banned_phrases) THEN [answer |-> text, calls |-> calls]
    ELSE IF ~Contains(answer_lower, banned_phrases[i])
    THEN filter_loop(i + 1, text, answer_lower, second, calls)
    ELSE IF technical_terms(answer_lower) >= RegenerationThreshold
    THEN [answer |-> second, calls |-> calls + 1]
    ELSE filter_loop(i + 1, substitute(banned_phrases[i], text),
                     answer_lower, second, calls)

\* lines 373-390
filter_answer(text, second) ==
    filter_loop(1, text, Lower(text), second, 0)

---------------------------------------------------------------------------
(* what the store and the model can hand to the synthesizer *)

Aliases == {"p", "patient", "n"}

NamePair(a, first, last) ==
    <<Scalar(a \o ".firstName", first), Scalar(a \o ".lastName", last)>>

\* record lists of one query: every record of a list has the same keys
ResultLists ==
    {<< >>}
    \cup {<<NamePair(a, "Ana", "Lee")>> : a \in Aliases}
    \cup {<<NamePair(a, "Ana", "Lee"), NamePair(a, "Bo", "Kim")>> : a \in Aliases}
    \cup { <<<<Scalar("p.lastName", "Lee"), Scalar("p.firstName", "Ana")>>>>,
           <<<<Scalar("firstName", "Ana"), Scalar("lastName", "Lee")>>>>,
           <<<<Scalar("p.firstName", "Ana")>>>>,
           <<<<Scalar("count", "42")>>>>,
           <<<<Scalar("numberOfPatients", "42")>>>>,
           <<<<Scalar("p.city", "Leeds"), Scalar("total", "7")>>,
             <<Scalar("p.city", "York"), Scalar("total", "3")>>>>,
           <<<<Scalar("p.country", "UK"), Scalar("p.city", "Leeds")>>>>,
           <<<<Scalar("p.firstName", "Ana"), Scalar("p.lastName", "Lee"),
               Scalar("conditionCount", "4")>>>>,
           <<<<Scalar("firstname", "Ana"), Scalar("total", "3")>>>>,
           <<<<Scalar("p.gender", "F"), Scalar("p.race", "white")>>>>,
           <<<<Node("p", <<Scalar("id", "7"), Scalar("firstName", "Ana"),
                           Scalar("lastName", "Lee"),
                           Scalar("embedding", "0.1 0.2")>>)>>>>,
           <<<<Node("p", <<Scalar("firstName", "Ana"), Scalar("lastName", "Lee")>>),
               Node("c", <<Scalar("description", "Asthma"),
                           Scalar("start", "2019-03-01")>>)>>>> }

\* replies of the drafting model to the first call
DraftTexts ==
    { "",
      "42",
      "Cypher: 42.",
      "There are 42 patients.",
      "The graph shows 42 patients.",
      "A paragraph about 42 patients.",
      "Cypher found 42 patients.",
      "The query returned 42 patients.",
      "The query results list 42 patients.",
      "The graph context has 42 patients.",
      "The Cypher query over the graph found 42 nodes.",
      "Based on the data, 42 nodes match." }

\* replies of the drafting model to the regenerating call
SecondTexts ==
    { "",
      "There are 42 patients in total.",
      "The graph and the cypher query give 42." }

---------------------------------------------------------------------------
(* nodes.py: synthesizer_agent in three parts *)

\* lines 222-346: normalisation, and the template for an empty result list
synth_normalise ==
    /\ synth_pc = "normalise"
    /\ shapes' = classify(limited_results(synth_results))
    /\ clean_results' = normalise(limited_results(synth_results))
    /\ IF synth_results = << >>
       THEN synth_answer' = EMPTY_RESULT_TEMPLATE /\ synth_pc' = "done"
       ELSE synth_answer' = synth_answer /\ synth_pc' = "draft"
    /\ UNCHANGED <<synth_results, result_data, interpret_calls>>
    /\ UNCHANGED run_vars
    /\ UNCHANGED main_vars
    /\ UNCHANGED conc_vars
    /\ UNCHANGED gen_vars
    /\ UNCHANGED emb_vars

\* lines 354-363: the first draft
synth_draft ==
    /\ synth_pc = "draft"
    /\ result_data' = interpret_data(clean_results)
    /\ interpret_calls' = interpret_calls + 1
    /\ \E ok \in BOOLEAN, reply \in DraftTexts :
          synth_answer' = draft_answer(ok, reply, Len(synth_results))
    /\ synth_pc' = "filter"
    /\ UNCHANGED <<synth_results, shapes, clean_results>>
    /\ UNCHANGED run_vars
    /\ UNCHANGED main_vars
    /\ UNCHANGED conc_vars
    /\ UNCHANGED gen_vars
    /\ UNCHANGED emb_vars

\* lines 373-392: the banned-phrase loop; the regenerating call is outside
\* any try, so its failure leaves the node
synth_filter ==
    /\ synth_pc = "filter"
    /\ \E ok \in BOOLEAN, second \in SecondTexts :
          LET out == filter_answer(synth_answer, second)
          IN  /\ interpret_calls' = interpret_calls + out.calls
              /\ result_data' =
                    IF out.calls > 0
                    THEN interpret_data(limited_results(synth_results))
                    ELSE result_data
              /\ IF out.calls > 0 /\ ~ok
                 THEN synth_pc' = "raised" /\ synth_answer' = synth_answer
                 ELSE synth_pc' = "done" /\ synth_answer' = out.answer
    /\ UNCHANGED <<synth_results, shapes, clean_results>>
    /\ UNCHANGED run_vars
    /\ UNCHANGED main_vars
    /\ UNCHANGED conc_vars
    /\ UNCHANGED gen_vars
    /\ UNCHANGED emb_vars

\* the synthesizer is entered after decision "answer" with a result list
SynthInit ==
    /\ synth_results \in ResultLists
    /\ state = [initial_state EXCEPT !.decision = "answer",
                                     !.neo4j_results = Len(synth_results)]
    /\ pc = "synthesizer_agent"
    /\ index_count = GraphNodes
    /\ llm_calls = 0
    /\ visited = << >>
    /\ decisions = << >>
    /\ store_outcomes = << >>
    /\ answer_writes = 0
    /\ ask_question_start(TRUE)
    /\ synth_pc = "normalise"
    /\ shapes = << >>
    /\ clean_results = << >>
    /\ result_data = [kind |-> "none", records |-> << >>]
    /\ synth_answer = ""
    /\ interpret_calls = 0
    /\ ConcIdle
    /\ GenIdle
    /\ EmbIdle

SynthNext ==
    \/ synth_normalise
    \/ synth_draft
    \/ synth_filter

SynthSpec == SynthInit /\ [][SynthNext]_vars

---------------------------------------------------------------------------
(* Concurrent requests: every call of ask_question starts graph.invoke in a
   thread of its own (asyncio.to_thread), on the module-level services of
   nodes.py and on the one store.  A step of a run is the node's code applied
   to the run's state dict. *)

NumRuns == 2

Runs == 1..NumRuns

Max(a, b) == IF a > b THEN a ELSE b

\* what the services answer in the runs followed here
ConcQueryTexts == {"MATCH a"}
ConcResultSizes == {0, 101}
ConcReplies == {"plain", "tech2"}

\* mutant of state_dict: one module-level dict serves every request
state_dict_Shared(request) == 1

\* main.py, line 151: initial_state is a dict literal, and "messages" a list
\* literal, evaluated in each call of ask_question: the dict of a request
\* is its own
state_dict(request) == request

\* planner_decide, lines 477-552, as a function of the state dict; reply is
\* what interpret_results returns to the forced termination
planner_step(s, reply) ==
    LET step == s.step + 1
        decision == Policy(s.context, s.cypher_query, s.neo4j_results,
                           s.error, s.refinement_count)
        m1 == _append_message(s.messages, "planner", decision)
        m2 == _append_message(m1, "user", s.question)
        m3 == IF s.context # 0
              THEN _append_message(m2, "context", "context[:1000]")
              ELSE m2
    IN  IF BudgetExceeded(step, s.max_steps)
        THEN [s EXCEPT
                !.step = step,
                !.decision = "end",
                !.messages = _append_message(@, "planner",
                                             "Step budget exceeded. Ending."),
                !.final_answer =
                    IF @ = "" THEN ForcedAnswer(s.neo4j_results, reply) ELSE @]
        ELSE [s EXCEPT
                !.step = step,
                !.decision = decision,
                !.refinement_count = IF decision = "refine" THEN @ + 1 ELSE @,
                !.messages = m3]

\* line 488: the forced termination calls the drafting model
planner_drafts(s) ==
    /\ BudgetExceeded(s.step + 1, s.max_steps)
    /\ s.final_answer = ""
    /\ ForcedDraftNeeded(s.neo4j_results)

\* embed_question to build_subgraph_context, lines 98-155
retriever_step(s, similar, nodes, relationships, node_line) ==
    LET subgraph == expand_traversal(similar, nodes, relationships, node_line)
    IN  [s EXCEPT !.query_embedding = TRUE,
                  !.similar_nodes = similar,
                  !.subgraph = subgraph,
                  !.context = build_subgraph_context(subgraph)]

\* cypher_agent, line 203
cypher_step(s, text) == [s EXCEPT !.cypher_query = text]

\* synthesizer_agent, lines 336-392
synthesizer_step(s, reply, second) ==
    [s EXCEPT !.final_answer =
        IF SynthNoResults(s.neo4j_results) THEN EMPTY_RESULT_TEMPLATE
        ELSE IF NeedsRegeneration(FirstDraft(reply)) THEN second
        ELSE Substituted(FirstDraft(reply))]

\* the node a run is in: the retriever is followed in three parts
NodeOf(at) == IF at \in {"bootstrap", "retrieve"} THEN "retriever_agent" ELSE at

\* run r's node applies F to the run's state dict and either raises or
\* returns; solo[r] takes the same step on the state the run would have
\* alone
Apply(r, F(_), node, raises) ==
    LET ref == runs[r].ref
        after(t) == IF raises THEN "raised"
                    ELSE IF node = "planner_decide"
                    THEN router_next_action(t.decision)
                    ELSE workflow_edge(node)
    IN  /\ dicts' = [dicts EXCEPT ![ref] = F(@)]
        /\ runs' = [runs EXCEPT ![r].at = after(F(dicts[ref]))]
        /\ solo' = [solo EXCEPT ![r] =
                       [state |-> F(solo[r].state),
                        at |-> after(F(solo[r].state))]]

single_run_vars == <<state, pc, llm_calls, visited, decisions, store_outcomes,
                     answer_writes>>

conc_planner(r) ==
    /\ runs[r].at = "planner_decide"
    /\ \E reply \in ConcReplies \cup {"none"} :
          /\ reply = "none" <=> ~planner_drafts(dicts[runs[r].ref])
          /\ Apply(r, LAMBDA s : planner_step(s, reply), "planner_decide", FALSE)
    /\ UNCHANGED <<index_count, stored>>
    /\ UNCHANGED <<single_run_vars, main_vars, synth_vars, gen_vars,
                   emb_vars>>

\* ensure_vector_index, lines 87-89: count() is read; a failing count() is
\* caught and skips the bootstrap
conc_count(r) ==
    /\ runs[r].at = "retriever_agent"
    /\ \E count_ok \in BOOLEAN :
          runs' = [runs EXCEPT ![r].at =
                      IF count_ok /\ index_count = 0 THEN "bootstrap"
                      ELSE "retrieve"]
    /\ UNCHANGED <<index_count, dicts, solo, stored>>
    /\ UNCHANGED <<single_run_vars, main_vars, synth_vars, gen_vars,
                   emb_vars>>

\* ensure_vector_index, lines 90-92: the run that read count() = 0 fetches
\* the nodes and stores an embedding on each of the first ten it manages to
\* embed (SET on the node: storing a node again changes no count)
conc_bootstrap(r) ==
    /\ runs[r].at = "bootstrap"
    /\ \E embedded \in 0..GraphNodes :
          /\ index_count' = Max(index_count, Min(embedded, BootstrapBatch))
          /\ stored' = IF embedded > 0 THEN stored \cup {r} ELSE stored
    /\ runs' = [runs EXCEPT ![r].at = "retrieve"]
    /\ UNCHANGED <<dicts, solo>>
    /\ UNCHANGED <<single_run_vars, main_vars, synth_vars, gen_vars,
                   emb_vars>>

\* embed_question, similarity_search, expand_traversal and
\* build_subgraph_context, as in retriever_agent
conc_retrieve(r) ==
    /\ runs[r].at = "retrieve"
    /\ \E embed_ok \in BOOLEAN, similar \in {0, 1}, expand_ok \in BOOLEAN :
          IF ~embed_ok
          THEN Apply(r, LAMBDA s : s, "retriever_agent", TRUE)
          ELSE IF similar # 0 /\ ~expand_ok
          THEN Apply(r, LAMBDA s : [s EXCEPT !.query_embedding = TRUE,
                                             !.similar_nodes = similar],
                     "retriever_agent", TRUE)
          ELSE Apply(r, LAMBDA s : retriever_step(s, similar, 3, 0, 20),
                     "retriever_agent", FALSE)
    /\ UNCHANGED <<index_count, stored>>
    /\ UNCHANGED <<single_run_vars, main_vars, synth_vars, gen_vars,
                   emb_vars>>

conc_cypher(r) ==
    /\ runs[r].at = "cypher_agent"
    /\ \E text \in ConcQueryTexts, ok \in BOOLEAN :
          IF ok
          THEN Apply(r, LAMBDA s : cypher_step(s, text), "cypher_agent", FALSE)
          ELSE Apply(r, LAMBDA s : s, "cypher_agent", TRUE)
    /\ UNCHANGED <<index_count, stored>>
    /\ UNCHANGED <<single_run_vars, main_vars, synth_vars, gen_vars,
                   emb_vars>>

conc_execute(r) ==
    /\ runs[r].at = "execute_query"
    /\ \E ok \in BOOLEAN, n \in ConcResultSizes :
          /\ ok \/ n = 0
          /\ Apply(r, LAMBDA s : execute_neo4j_query(s, ok, n),
                   "execute_query", FALSE)
    /\ UNCHANGED <<index_count, stored>>
    /\ UNCHANGED <<single_run_vars, main_vars, synth_vars, gen_vars,
                   emb_vars>>

conc_refine(r) ==
    /\ runs[r].at = "refine_query"
    /\ \E text \in ConcQueryTexts, ok \in BOOLEAN :
          IF ~ok /\ RefineCallsModel(dicts[runs[r].ref])
          THEN Apply(r, LAMBDA s : s, "refine_query", TRUE)
          ELSE Apply(r, LAMBDA s : refine_query_state(s, text),
                     "refine_query", FALSE)
    /\ UNCHANGED <<index_count, stored>>
    /\ UNCHANGED <<single_run_vars, main_vars, synth_vars, gen_vars,
                   emb_vars>>

conc_synthesizer(r) ==
    /\ runs[r].at = "synthesizer_agent"
    /\ \E reply \in ConcReplies, second \in {"plain"}, ok \in BOOLEAN :
          LET s0 == dicts[runs[r].ref]
              regenerates == /\ ~SynthNoResults(s0.neo4j_results)
                             /\ NeedsRegeneration(FirstDraft(reply))
          IN  IF regenerates /\ ~ok
              THEN Apply(r, LAMBDA s : s, "synthesizer_agent", TRUE)
              ELSE Apply(r, LAMBDA s : synthesizer_step(s, reply, second),
                         "synthesizer_agent", FALSE)
    /\ UNCHANGED <<index_count, stored>>
    /\ UNCHANGED <<single_run_vars, main_vars, synth_vars, gen_vars,
                   emb_vars>>

\* the requests have been accepted and their runs started; the variables of
\* the single run are not used
ConcInit ==
    /\ runs = [r \in Runs |-> [at |-> "planner_decide", ref |-> state_dict(r)]]
    /\ dicts = [d \in Runs |-> initial_state]
    /\ solo = [r \in Runs |-> [state |-> initial_state, at |-> "planner_decide"]]
    /\ stored = {}
    /\ RunInit
    /\ ask_question_start(TRUE)
    /\ SynthIdle
    /\ GenIdle
    /\ EmbIdle

ConcNext ==
    \/ \E r \in Runs : conc_planner(r)
    \/ \E r \in Runs : conc_count(r)
    \/ \E r \in Runs : conc_bootstrap(r)
    \/ \E r \in Runs : conc_retrieve(r)
    \/ \E r \in Runs : conc_cypher(r)
    \/ \E r \in Runs : conc_execute(r)
    \/ \E r \in Runs : conc_refine(r)
    \/ \E r \in Runs : conc_synthesizer(r)

ConcSpec == ConcInit /\ [][ConcNext]_vars

---------------------------------------------------------------------------
(* llm_service.py: generate_cypher cleans the text the model returned *)

KeyLen == 50
MaxResponseLines == 4

NEWLINE == "\n"
STATEMENT_KEYWORDS == <<"MATCH", "WITH", "RETURN", "CALL">>

UpperChar(c) ==
    IF \E i \in 1..Len(LOWERCASE) : CharAt(LOWERCASE, i) = c
    THEN CharAt(UPPERCASE, CHOOSE i \in 1..Len(LOWERCASE) : CharAt(LOWERCASE, i) = c)
    ELSE c

\* s.upper(), half by half
RECURSIVE Upper(_)
Upper(s) ==
    IF Len(s) = 0 THEN ""
    ELSE IF Len(s) = 1 THEN UpperChar(s)
    ELSE Upper(SubSeq(s, 1, Len(s) \div 2)) \o Upper(From(s, Len(s) \div 2 + 1))

\* s.strip(), of blanks and newlines
RECURSIVE StripWs(_)
StripWs(s) ==
    IF s = "" THEN ""
    ELSE IF CharAt(s, 1) \in {" ", NEWLINE} THEN StripWs(From(s, 2))
    ELSE IF CharAt(s, Len(s)) \in {" ", NEWLINE}
    THEN StripWs(SubSeq(s, 1, Len(s) - 1))
    ELSE s

\* s.split(sep)
RECURSIVE Split(_, _)
Split(s, sep) ==
    IF ~Contains(s, sep) THEN <<s>>
    ELSE <<SubSeq(s, 1, Find(s, sep) - 1)>>
           \o Split(From(s, Find(s, sep) + Len(sep)), sep)

\* sep.join(parts)
RECURSIVE Join(_, _)
Join(parts, sep) ==
    IF parts = << >> THEN ""
    ELSE IF Len(parts) = 1 THEN parts[1]
    ELSE parts[1] \o sep \o Join(Tail(parts), sep)

\* s.count(p), for a non-empty p: occurrences that do not overlap
RECURSIVE CountOf(_, _)
CountOf(s, p) ==
    IF ~Contains(s, p) THEN 0
    ELSE 1 + CountOf(From(s, Find(s, p) + Len(p)), p)

\* s.find(p, start), with Python's indices: from 0, and -1 for no occurrence
FindFrom(s, p, start) ==
    IF Contains(From(s, start + 1), p)
    THEN start + Find(From(s, start + 1), p) - 1
    ELSE -1

\* line 102: line_stripped.upper().startswith(('MATCH', 'WITH', 'RETURN', 'CALL'))
IsStatementStart(line_stripped) ==
    \E k \in DOMAIN STATEMENT_KEYWORDS :
        StartsWith(Upper(line_stripped), STATEMENT_KEYWORDS[k])

\* line 103: line_stripped[:50]
query_key(line_stripped) ==
    SubSeq(line_stripped, 1, Min(Len(line_stripped), KeyLen))

\* lines 124-128: text with more than one RETURN is cut before the first
\* MATCH that follows its first RETURN, if there is one
cut_at_second_query(text) ==
    IF CountOf(text, "RETURN") > 1
    THEN LET first_return_idx == FindFrom(text, "RETURN", 0)
             second_match_idx == FindFrom(text, "MATCH", first_return_idx)
         IN  IF second_match_idx > 0
             THEN StripWs(SubSeq(text, 1, second_match_idx))
             ELSE text
    ELSE text

\* the lines the model can write, and its outputs of at most
\* MaxResponseLines lines
ResponseLines ==
    { "MATCH (p:Patient)",
      "  WHERE p.age > 60",
      "RETURN p.name",
      "with p",
      "CALL db.labels() YIELD label RETURN label",
      "" }

RECURSIVE LineSeqs(_)
LineSeqs(n) ==
    IF n = 0 THEN {<< >>}
    ELSE LET shorter == LineSeqs(n - 1)
         IN  shorter \cup {Append(ls, l) : ls \in {x \in shorter : Len(x) = n - 1},
                                            l \in ResponseLines}

Responses == {Join(ls, NEWLINE) : ls \in LineSeqs(MaxResponseLines) \ {<< >>}}

\* lines 86-94: the model is invoked and its output stripped and split
gen_invoke ==
    /\ gen_pc = "idle"
    /\ \E content \in Responses :
          /\ gen_response' = content
          /\ gen_query' = StripWs(content)
          /\ gen_lines' = Split(StripWs(content), NEWLINE)
    /\ seen_queries' = {}
    /\ unique_lines' = << >>
    /\ current_query' = << >>
    /\ gen_pc' = "loop"
    /\ UNCHANGED cleaned_query
    /\ UNCHANGED <<run_vars, main_vars, synth_vars, conc_vars, emb_vars>>

\* lines 96-114: one turn of the loop, on the next line
gen_line ==
    /\ gen_pc = "loop"
    /\ gen_lines # << >>
    /\ LET line == Head(gen_lines)
           line_stripped == StripWs(line)
       IN  IF line_stripped = "" THEN
               UNCHANGED <<seen_queries, unique_lines, current_query>>
           ELSE IF IsStatementStart(line_stripped) THEN
               IF query_key(line_stripped) \notin seen_queries
               THEN /\ seen_queries' = seen_queries \cup {query_key(line_stripped)}
                    /\ unique_lines' =
                          IF current_query # << >>
                          THEN unique_lines \o current_query \o <<"">>
                          ELSE unique_lines
                    /\ current_query' = <<line>>
               ELSE /\ current_query' = << >>
                    /\ UNCHANGED <<seen_queries, unique_lines>>
           ELSE IF current_query # << >> THEN
               /\ current_query' = Append(current_query, line)
               /\ UNCHANGED <<seen_queries, unique_lines>>
           ELSE UNCHANGED <<seen_queries, unique_lines, current_query>>
    /\ gen_lines' = Tail(gen_lines)
    /\ UNCHANGED <<gen_pc, gen_response, gen_query, cleaned_query>>
    /\ UNCHANGED <<run_vars, main_vars, synth_vars, conc_vars, emb_vars>>

\* lines 116-121: the pending statement is kept, the lines are joined, and
\* an empty text is replaced by the model's output
gen_join ==
    /\ gen_pc = "loop"
    /\ gen_lines = << >>
    /\ unique_lines' = unique_lines \o current_query
    /\ cleaned_query' =
          LET joined == StripWs(Join(unique_lines \o current_query, NEWLINE))
          IN  IF joined = "" THEN gen_query ELSE joined
    /\ gen_pc' = "cut"
    /\ UNCHANGED <<gen_response, gen_query, gen_lines, seen_queries, current_query>>
    /\ UNCHANGED <<run_vars, main_vars, synth_vars, conc_vars, emb_vars>>

\* lines 123-130
gen_return ==
    /\ gen_pc = "cut"
    /\ cleaned_query' = cut_at_second_query(cleaned_query)
    /\ gen_pc' = "done"
    /\ UNCHANGED <<gen_response, gen_query, gen_lines, seen_queries,
                   unique_lines, current_query>>
    /\ UNCHANGED <<run_vars, main_vars, synth_vars, conc_vars, emb_vars>>

CypherInit ==
    /\ GenIdle
    /\ EmbIdle
    /\ RunInit
    /\ ask_question_start(TRUE)
    /\ SynthIdle
    /\ ConcIdle

CypherNext ==
    \/ gen_invoke
    \/ gen_line
    \/ gen_join
    \/ gen_return

CypherSpec == CypherInit /\ [][CypherNext]_vars

---------------------------------------------------------------------------
(* embedding_service.py: embed_text and embed_texts *)

TruncationLen == 256
\* the longest input, in characters over the whole request, that the
\* embeddings API accepts here, and the largest batch followed
RequestLimit == 600
MaxBatch == 3

\* lengths of the texts handed to the service
TextLens == {8, 256, 400, 700}

Batches == UNION {[1..n -> TextLens] : n \in 1..MaxBatch}

RECURSIVE SumLens(_)
SumLens(lens) == IF lens = << >> THEN 0 ELSE Head(lens) + SumLens(Tail(lens))

\* client.embeddings.create raises openai.BadRequestError for an input
\* over the limit
RequestTooLong(lens) == SumLens(lens) > RequestLimit

\* what a request can end in: the embeddings, BadRequestError for an
\* oversized input, or another error of the API (connection, rate limit)
RequestOutcomes(lens) ==
    IF RequestTooLong(lens) THEN {"bad_request"} ELSE {"ok", "api_error"}

\* line 32: [t[:256] for t in texts]
truncated(texts) == [i \in DOMAIN texts |-> Min(texts[i], TruncationLen)]

\* nodes.py line 100 (embed_question), neo4j_vector_store_service.py lines
\* 60, 85 and 122: one text is handed to embed_text
call_embed_text ==
    /\ emb_pc = "idle"
    /\ \E len \in TextLens : emb_input' = <<len>>
    /\ emb_pc' = "embed_text"
    /\ UNCHANGED emb_requests
    /\ UNCHANGED <<run_vars, main_vars, synth_vars, conc_vars, gen_vars>>

\* lines 15-20: one request, whose exception is not caught
embed_text ==
    /\ emb_pc = "embed_text"
    /\ emb_requests' = Append(emb_requests, emb_input)
    /\ \E outcome \in RequestOutcomes(emb_input) :
          emb_pc' = IF outcome = "ok" THEN "returned" ELSE "raised"
    /\ UNCHANGED emb_input
    /\ UNCHANGED <<run_vars, main_vars, synth_vars, conc_vars, gen_vars>>

\* vector_store_service.py line 37: a batch is handed to embed_texts
call_embed_texts ==
    /\ emb_pc = "idle"
    /\ \E texts \in Batches : emb_input' = texts
    /\ emb_pc' = "embed_texts"
    /\ UNCHANGED emb_requests
    /\ UNCHANGED <<run_vars, main_vars, synth_vars, conc_vars, gen_vars>>

\* lines 23-29: the first request; BadRequestError is caught (the error
\* class of the client always has the attribute code, line 31)
embed_texts ==
    /\ emb_pc = "embed_texts"
    /\ emb_requests' = Append(emb_requests, emb_input)
    /\ \E outcome \in RequestOutcomes(emb_input) :
          emb_pc' = CASE outcome = "ok" -> "returned"
                      [] outcome = "bad_request" -> "retry"
                      [] OTHER -> "raised"
    /\ UNCHANGED emb_input
    /\ UNCHANGED <<run_vars, main_vars, synth_vars, conc_vars, gen_vars>>

\* lines 32-37: the second request, on the truncated texts, inside the
\* except block: its exception leaves embed_texts
embed_texts_retry ==
    /\ emb_pc = "retry"
    /\ emb_requests' = Append(emb_requests, truncated(emb_input))
    /\ \E outcome \in RequestOutcomes(truncated(emb_input)) :
          emb_pc' = IF outcome = "ok" THEN "returned" ELSE "raised"
    /\ UNCHANGED emb_input
    /\ UNCHANGED <<run_vars, main_vars, synth_vars, conc_vars, gen_vars>>

EmbedInit ==
    /\ EmbIdle
    /\ GenIdle
    /\ RunInit
    /\ ask_question_start(TRUE)
    /\ SynthIdle
    /\ ConcIdle

EmbedNext ==
    \/ call_embed_text
    \/ embed_text
    \/ call_embed_texts
    \/ embed_texts
    \/ embed_texts_retry

EmbedSpec == EmbedInit /\ [][EmbedNext]_vars

---------------------------------------------------------------------------
(* Properties *)

Last(seq) == seq[Len(seq)]

PlannerRuns == Count(visited, "planner_decide")

\* C1: in every reachable state step <= max_steps + 1, with max_steps the
\* value fixed at initialisation; step counts the planner steps run (only
\* the planner increments it, by one), and once step exceeds max_steps the
\* run is at END and the planner was the last node to run.
C1_StepBound ==
    /\ state.max_steps = MaxSteps
    /\ state.step <= state.max_steps + 1
    /\ state.step = PlannerRuns
    /\ state.step > state.max_steps =>
          pc = "END" /\ Last(visited) = "planner_decide"

C1_Witness ==
    /\ state.step = state.max_steps + 1
    /\ pc = "END"
    /\ Count(visited, "execute_query") > 1

\* C2 as stated: every run reaches END.
C2_ReachesEnd == <>(pc = "END")

\* C2, amended: every run stops, at END or by an exception that leaves the
\* workflow, after at most max_steps + 1 planner invocations.
C2_Terminates ==
    /\ <>(pc \in {"END", "raised"})
    /\ [](PlannerRuns <= MaxSteps + 1)

C2_Witness ==
    /\ pc = "END"
    /\ PlannerRuns = MaxSteps + 1
    /\ \E i \in DOMAIN store_outcomes : ~store_outcomes[i].ok
    /\ \E i \in DOMAIN store_outcomes : store_outcomes[i].n > ResultCap

\* C3: in every reachable state 0 <= refinement_count <= quota, and refine
\* is decided and the refine node run at most quota times.
C3_RefinementBound ==
    /\ 0 <= state.refinement_count
    /\ state.refinement_count <= RefinementQuota
    /\ Count(decisions, "refine") <= RefinementQuota
    /\ Count(visited, "refine_query") <= RefinementQuota

C3_Witness ==
    /\ Count(visited, "refine_query") = RefinementQuota
    /\ state.refinement_count = RefinementQuota
    /\ \E i \in DOMAIN store_outcomes : ~store_outcomes[i].ok
    /\ Oversized(state.neo4j_results)
    /\ pc = "END"

\* the priority table of the planner as the specification states it
ReferenceDecision(s) ==
    CASE s.context = 0 -> "retrieve"
      [] s.context # 0 /\ s.cypher_query = "" -> "query"
      [] s.context # 0 /\ s.cypher_query # "" /\ s.neo4j_results = 0 ->
            IF s.error # "" /\ s.refinement_count < RefinementQuota
            THEN "refine" ELSE "execute"
      [] s.context # 0 /\ s.cypher_query # "" /\ s.neo4j_results > ResultCap ->
            IF s.refinement_count = 0 THEN "refine" ELSE "answer"
      [] OTHER -> "answer"

\* C4: a planner step within the budget decides what the reference
\* priority table decides, and increments refinement_count exactly when
\* the decision is refine.
C4_PolicyTable ==
    [][ (pc = "planner_decide" /\ state.step + 1 <= state.max_steps) =>
          /\ state'.decision = ReferenceDecision(state)
          /\ state'.refinement_count =
                IF state'.decision = "refine"
                THEN state.refinement_count + 1
                ELSE state.refinement_count ]_vars

C4_Witness ==
    /\ pc = "synthesizer_agent"
    /\ state.decision = "answer"
    /\ Oversized(state.neo4j_results)
    /\ state.refinement_count = RefinementQuota
    /\ Count(decisions, "execute") > 1

\* the scenario of C5: the first generated query is non-empty, it was
\* executed, every execution returned the empty list without an error, and
\* the run has ended
NoGraphMatchRun ==
    /\ pc = "END"
    /\ Count(visited, "cypher_agent") = 1
    /\ Len(store_outcomes) > 0
    /\ \A i \in DOMAIN store_outcomes :
          store_outcomes[i].ok /\ store_outcomes[i].n = 0

\* C5: when the store returns an empty record list without error on every
\* execution, the decisions of the run are retrieve, query, execute,
\* refine, execute, answer and the final answer is the empty-result template.
C5_EmptyResultScenario ==
    NoGraphMatchRun =>
       /\ decisions = <<"retrieve", "query", "execute", "refine", "execute", "answer">>
       /\ state.final_answer = EMPTY_RESULT_TEMPLATE

\* the last node run was execute_query and its query raised a store error
ExecuteJustRaised ==
    /\ pc = "planner_decide"
    /\ Len(visited) > 0 /\ Last(visited) = "execute_query"
    /\ Len(store_outcomes) > 0 /\ ~Last(store_outcomes).ok

\* C6 as stated: with more than 100 records and refinement_count = 0, the
\* next decision of the planner is refine.
C6_OversizedRefines ==
    [][ (pc = "planner_decide" /\ state.neo4j_results > ResultCap
           /\ state.refinement_count = 0)
          => state'.decision = "refine" ]_vars

\* C6, amended: with more than 100 records and refinement_count = 0, the
\* next decision of the planner is refine while the step budget lasts and
\* end when this planner step exceeds it; it is never answer.
C6_OversizedRefinesWithinBudget ==
    [][ (pc = "planner_decide" /\ state.neo4j_results > ResultCap
           /\ state.refinement_count = 0)
          => state'.decision =
                IF state.step + 1 > state.max_steps THEN "end" ELSE "refine" ]_vars

C6_Witness ==
    /\ pc = "refine_query"
    /\ state.decision = "refine"
    /\ state.neo4j_results > ResultCap
    /\ state.refinement_count = 1
    /\ state.step < state.max_steps

\* C7 as stated: after an execute step whose query raised a store error,
\* the next decision is refine if refinement_count < quota, else execute.
C7_ErrorRefines ==
    [][ ExecuteJustRaised =>
          state'.decision =
             IF state.refinement_count < RefinementQuota
             THEN "refine" ELSE "execute" ]_vars

\* C7, amended: after an execute step whose query raised a store error,
\* the next decision is end when this planner step exceeds the step budget,
\* and otherwise refine if refinement_count < quota, else execute.
C7_ErrorRefinesWithinBudget ==
    [][ ExecuteJustRaised =>
          state'.decision =
             IF state.step + 1 > state.max_steps THEN "end"
             ELSE IF state.refinement_count < RefinementQuota
             THEN "refine" ELSE "execute" ]_vars

C7_Witness ==
    /\ pc = "execute_query"
    /\ state.decision = "execute"
    /\ state.error # ""
    /\ state.refinement_count = RefinementQuota
    /\ Last(visited) = "planner_decide"
    /\ visited[Len(visited) - 1] = "execute_query"

\* C8: a run that ends with an empty result set, through the Synthesizer
\* or by forced termination, has as its answer one of the two fixed
\* "no information found" texts and made no call of the drafting model.
C8_EmptyResultsNoDraft ==
    (pc = "END" /\ state.neo4j_results = 0) =>
       /\ state.final_answer \in {EMPTY_RESULT_TEMPLATE, FORCED_EMPTY_MESSAGE}
       /\ llm_calls = 0

C8_Witness ==
    /\ pc = "END"
    /\ state.neo4j_results = 0
    /\ state.final_answer = FORCED_EMPTY_MESSAGE
    /\ Len(store_outcomes) > 0

\* the retriever has run and returned (it did not raise)
RetrieverReturned ==
    /\ Count(visited, "retriever_agent") > 0
    /\ ~(pc = "raised" /\ Last(visited) = "retriever_agent")

\* C9: retrieve is decided and the retriever run at most once; once the
\* retriever has returned the context is non-empty; a run that reaches END
\* has retrieved exactly once.
C9_RetrieveOnce ==
    /\ Count(decisions, "retrieve") <= 1
    /\ Count(visited, "retriever_agent") <= 1
    /\ RetrieverReturned => state.context > 0
    /\ pc = "END" => Count(visited, "retriever_agent") = 1

C9_Witness ==
    /\ pc = "END"
    /\ state.similar_nodes = 0
    /\ state.subgraph.nodes = 0
    /\ state.context = HeaderNodesLen + 1 + HeaderRelsLen
    /\ Count(visited, "retriever_agent") = 1

\* C10: the planner step that exceeds the step budget decides end and
\* routes to END; final_answer is unset before it and is set by it, to the
\* fixed message without a model call when results is empty, and otherwise
\* with one model call to the draft or, when drafting raised or returned
\* nothing, to a fixed "found N records" message; no node runs after END.
C10_ForcedTermination ==
    /\ [][ (pc = "planner_decide" /\ state.step + 1 > state.max_steps) =>
             /\ state'.decision = "end"
             /\ pc' = "END"
             /\ state.final_answer = ""
             /\ IF state.neo4j_results = 0
                THEN /\ state'.final_answer = FORCED_EMPTY_MESSAGE
                     /\ llm_calls' = llm_calls
                ELSE /\ llm_calls' = llm_calls + 1
                     /\ state'.final_answer \in
                           (DraftReplies \ {""}) \cup {FOUND_N, FOUND_N_NO_SYNTHESIS} ]_vars
    /\ [][ pc # "END" ]_vars

C10_Witness ==
    /\ pc = "END"
    /\ state.decision = "end"
    /\ state.neo4j_results > 0
    /\ state.final_answer = FOUND_N_NO_SYNTHESIS

\* C11: final_answer is empty and was never assigned in every state before
\* the end of the run; a run at END has assigned it exactly once, in its
\* last step, which is the Synthesizer or the planner step that decided end.
C11_AnswerSetOnce ==
    /\ pc # "END" => state.final_answer = "" /\ answer_writes = 0
    /\ pc = "END" =>
          /\ answer_writes = 1
          /\ \/ Last(visited) = "synthesizer_agent" /\ state.decision = "answer"
             \/ Last(visited) = "planner_decide" /\ state.decision = "end"

C11_Witness ==
    /\ pc = "END"
    /\ answer_writes = 1
    /\ Last(visited) = "synthesizer_agent"
    /\ state.final_answer = "plain"

ActionNodes == {"retriever_agent", "cypher_agent", "execute_query", "refine_query"}

\* C12 as stated: the Synthesizer is followed by END and every other
\* dispatched node by the planner, so a run stops only at END, after
\* decision end or decision answer.
C12_ExitsOnlyByDecision ==
    [][ /\ pc = "synthesizer_agent" => pc' = "END"
        /\ pc \in ActionNodes => pc' = "planner_decide" ]_vars

\* C12, amended: a node that returns is followed by END (the Synthesizer)
\* or by the planner (every other node), and a node that raises ends the
\* run; a run at END decided end, or decided answer and ran the Synthesizer
\* once as its last node; the planner never runs after the Synthesizer.
C12_ExitsByDecisionOrException ==
    /\ [][ /\ pc = "synthesizer_agent" => pc' \in {"END", "raised"}
           /\ pc \in ActionNodes => pc' \in {"planner_decide", "raised"}
           /\ pc = "planner_decide" =>
                 pc' \in ActionNodes \cup {"synthesizer_agent", "END"}
           /\ pc \notin {"END", "raised"} ]_vars
    /\ [](pc = "END" =>
            \/ /\ state.decision = "end"
               /\ Count(visited, "synthesizer_agent") = 0
            \/ /\ state.decision = "answer"
               /\ Count(visited, "synthesizer_agent") = 1
               /\ Last(visited) = "synthesizer_agent")

C12_Witness ==
    /\ pc = "END"
    /\ state.decision = "answer"
    /\ Count(visited, "synthesizer_agent") = 1
    /\ Count(decisions, "refine") = 1
    /\ llm_calls = 2

\* C13: after every retrieve step the subgraph in the run state has at most
\* 20 nodes and at most 30 relationships, whatever neighbourhood the store
\* returned for the expansion.
C13_SubgraphCaps ==
    /\ state.subgraph.nodes <= NodeCap
    /\ state.subgraph.relationships <= RelationshipCap

\* the store returned more than both caps and the retriever cut both
C13_Witness ==
    /\ RetrieverReturned
    /\ state.subgraph.nodes = NodeCap
    /\ state.subgraph.relationships = RelationshipCap

\* C14: the context string stored in the run state always satisfies
\* len(context) <= 4000, also when the rendered listing is longer than 4000
\* characters and is truncated.
C14_ContextWithinCap == state.context <= ContextCap

\* C15: when the run does not finish within the caller's timeout, the caller
\* returns the fixed timeout message with an empty query and the timeout
\* error, and nothing the abandoned run produces (query, answer, results)
\* appears in the response or in the conversation afterwards, although the
\* run's thread keeps executing.
C15_TimeoutDiscardsRun ==
    caller = "returned_timeout" =>
        /\ response = [ question     |-> Question,
                        cypher_query |-> "",
                        answer       |-> TIMEOUT_MESSAGE,
                        error        |-> TIMEOUT_ERROR ]
        /\ conversation =
              IF session
              THEN << [role |-> "user", content |-> Question],
                      [role |-> "system", content |-> TIMEOUT_MESSAGE] >>
              ELSE << >>

\* the abandoned run went on to produce a query, results and an answer
C15_Witness ==
    /\ caller = "returned_timeout"
    /\ session
    /\ pc = "END"
    /\ state.cypher_query # ""
    /\ state.neo4j_results > 0
    /\ state.final_answer = "plain"

\* C16: ask_question always returns a response carrying question, answer
\* and error, whether the run completed, was terminated by the step budget,
\* timed out, or raised in a step; no exception escapes.
C16_AlwaysStructuredResponse ==
    /\ [](/\ caller \in {"waiting", "returned_result", "returned_timeout",
                          "returned_error"}
          /\ caller # "waiting" =>
                {"question", "answer", "error"} \subseteq DOMAIN response)
    /\ <>(caller # "waiting")

\* a step raised and the caller returned the error response
C16_Witness ==
    /\ caller = "returned_error"
    /\ pc = "raised"
    /\ response.answer = ""
    /\ response.error = RUN_EXCEPTION

IsPrefixedNamePair(r) ==
    /\ Len(r) = 2
    /\ \E a \in Aliases :
          {r[1].key, r[2].key} = {a \o ".firstName", a \o ".lastName"}

\* the value a record holds under the key with this ending
ValueUnder(r, ending) ==
    r[CHOOSE i \in DOMAIN r : EndsWith(r[i].key, ending)].value

\* equality of two dicts: the same items, in any order
SameDict(d1, d2) ==
    /\ Len(d1) = Len(d2)
    /\ {d1[i] : i \in DOMAIN d1} = {d2[i] : i \in DOMAIN d2}

AggregateKey(k) ==
    \E w \in {"count", "number", "total", "sum", "avg", "average", "min",
              "max", "frequency"} : Contains(Lower(k), w)

IdentityKey(k) ==
    \E w \in {"firstname", "lastname"} : Contains(Lower(k), w)

\* C18: a record is classified as an aggregate exactly when some key matches
\* the aggregate heuristics and no key is an identity-like field (first or
\* last name); an aggregate record such as {"count": 42} is handed to the
\* drafting step unchanged, so its value is in the data of the draft.
C18_AggregatePassedThrough ==
    synth_pc # "normalise" =>
        \A i \in DOMAIN synth_results :
            LET r == synth_results[i]
                aggregate ==
                    /\ \E n \in DOMAIN r : AggregateKey(r[n].key)
                    /\ ~\E n \in DOMAIN r : IdentityKey(r[n].key)
            IN  /\ (shapes[i] = "aggregate") <=> aggregate
                /\ aggregate =>
                      /\ \E j \in DOMAIN clean_results : clean_results[j] = r
                      /\ interpret_calls > 0 =>
                            \E j \in DOMAIN result_data.records :
                                result_data.records[j] = r

\* the count record has reached the data of the first draft
C18_Witness ==
    /\ synth_pc = "done"
    /\ synth_results = << <<Scalar("count", "42")>> >>
    /\ shapes = <<"aggregate">>
    /\ interpret_calls = 1
    /\ result_data = [kind |-> "aggregate",
                      records |-> << <<Scalar("count", "42")>> >>]

\* C19: the Synthesizer calls the drafting model at most twice (one draft,
\* at most one regeneration), and the regenerated text is the final answer
\* as the model returned it, without a further check or regeneration.
C19_AtMostTwoDrafts ==
    /\ interpret_calls <= 2
    /\ synth_pc = "done" /\ interpret_calls = 2 => synth_answer \in SecondTexts

\* a regenerated text that itself holds banned phrases was accepted
C19_Witness ==
    /\ synth_pc = "done"
    /\ interpret_calls = 2
    /\ synth_answer = "The graph and the cypher query give 42."

\* text holds w as a word between blanks
HasWord(text, w) == Contains(" " \o Lower(text) \o " ", " " \o w \o " ")

\* C20: when the draft holds the word "graph" and no regeneration is
\* triggered, the substitution pass removes or replaces it: the final answer
\* does not contain "graph".
C20_GraphRemoved ==
    [][ (/\ synth_pc = "filter"
         /\ HasWord(synth_answer, "graph")
         /\ synth_pc' = "done"
         /\ interpret_calls' = interpret_calls)
        => ~Contains(Lower(synth_answer'), "graph") ]_vars

\* the substitution pass alone: every clean-up of lines 377-385 whose phrase
\* is in the lower-cased draft, from phrase i on
RECURSIVE SubstitutionPass(_, _, _)
SubstitutionPass(i, text, answer_lower) ==
    IF i > Len(banned_phrases) THEN text
    ELSE SubstitutionPass(i + 1,
            IF Contains(answer_lower, banned_phrases[i])
            THEN substitute(banned_phrases[i], text) ELSE text,
            answer_lower)

\* the denylisted terms a text holds
DenylistedTerms(text) ==
    Cardinality({j \in DOMAIN banned_phrases :
                    Contains(Lower(text), banned_phrases[j])})

\* C21: the second drafting call is made exactly when, after the
\* substitution pass, the answer still holds at least 2 denylisted terms; a
\* draft whose denylisted terms are all removed by substitution is not
\* regenerated.
C21_RegeneratedIffTermsRemain ==
    [][ (synth_pc = "filter" /\ synth_pc' # "filter")
        => ((interpret_calls' = interpret_calls + 1)
              <=> DenylistedTerms(SubstitutionPass(1, synth_answer,
                                                   Lower(synth_answer))) >= 2)
      ]_vars

\* C22: with two or more runs interleaved arbitrarily, no step of one run
\* reads or changes the run state of another: every run's state dict (step,
\* decision, context, query, results, error, refinement_count, messages,
\* final_answer) and position are what they would be had the run been alone
\* with the same answers of the services, and a step of a run leaves the
\* dicts of the other runs as they were.
C22_RunsIsolated ==
    /\ [](\A r \in Runs :
            /\ dicts[runs[r].ref] = solo[r].state
            /\ NodeOf(runs[r].at) = solo[r].at)
    /\ [][\A r \in Runs :
            runs'[r] # runs[r] =>
                \A q \in Runs \ {r} :
                    dicts'[runs[q].ref] = dicts[runs[q].ref]]_vars

\* two runs have ended differently: one answered after a refinement, the
\* other was stopped by the step budget
C22_Witness ==
    /\ runs[1].at = "END"
    /\ runs[2].at = "END"
    /\ dicts[runs[1].ref].decision = "answer"
    /\ dicts[runs[1].ref].refinement_count = 1
    /\ dicts[runs[1].ref].final_answer = "plain"
    /\ dicts[runs[2].ref].decision = "end"
    /\ dicts[runs[2].ref].final_answer = FORCED_EMPTY_MESSAGE


\* C23: the retriever never raises: whichever of its sub-steps fails, it
\* returns and the run continues with the next planner step.
C23_RetrieverNeverRaises ==
    [][pc = "retriever_agent" => pc' = "planner_decide"]_vars

\* C24: when the store raises during execute, the exception text becomes
\* the error of the run state, the results stay empty, the query is
\* unchanged, and the step returns, so that the planner runs next.
C24_StoreFailureCaptured ==
    [][ (pc = "execute_query" /\ Len(store_outcomes') > Len(store_outcomes)
           /\ ~Last(store_outcomes').ok)
        => /\ state'.error = STORE_ERROR
           /\ state'.error # ""
           /\ state'.neo4j_results = 0
           /\ state'.cypher_query = state.cypher_query
           /\ pc' = "planner_decide" ]_vars

\* the store has raised during execute and the planner has run after it
C24_Witness ==
    /\ Len(visited) >= 2
    /\ visited[Len(visited) - 1] = "execute_query"
    /\ Last(visited) = "planner_decide"
    /\ ~Last(store_outcomes).ok
    /\ state.error = STORE_ERROR
    /\ state.neo4j_results = 0
    /\ state.cypher_query # ""

\* the reason of the refine step that is about to run
RefinesFailedExecution == state.error # "" \/ state.neo4j_results = 0
RefinesOversizedResults == ~RefinesFailedExecution /\ Oversized(state.neo4j_results)

\* C25: after a refine step, whether it refines a failed or empty execution
\* or an oversized result set, the query is the text generate_cypher just
\* returned, the results are empty and the error is empty.
C25_RefineResetsState ==
    [][ (pc = "refine_query" /\ pc' = workflow_edge("refine_query"))
        => /\ RefinesFailedExecution \/ RefinesOversizedResults
           /\ \E text \in QueryTexts :
                 /\ state' = refine_query_state(state, text)
                 /\ state'.cypher_query = text
           /\ state'.neo4j_results = 0
           /\ state'.error = "" ]_vars

\* a refine step has replaced the query of an execution the store failed
C25_Witness ==
    /\ Len(visited) > 0 /\ Len(store_outcomes) > 0
    /\ Last(visited) = "refine_query"
    /\ pc = "planner_decide"
    /\ ~Last(store_outcomes).ok
    /\ Last(state.messages).role = "refiner"
    /\ state.error = ""
    /\ state.neo4j_results = 0

\* a refine step has replaced the query of an oversized result set
C25_OversizedRefined ==
    /\ Len(visited) > 0 /\ Len(store_outcomes) > 0
    /\ Last(visited) = "refine_query"
    /\ pc = "planner_decide"
    /\ Last(store_outcomes).ok
    /\ Last(store_outcomes).n > ResultCap
    /\ Last(state.messages).content = "Refined query for specificity"

\* a run has ended while the query text is empty although a query was
\* generated: every generation since the last non-empty text yielded ""
EndedWithEmptyQuery ==
    /\ pc = "END"
    /\ state.cypher_query = ""
    /\ Count(visited, "cypher_agent") > 0

\* C26: when query generation yields empty text, the run ends with the
\* answer of the Synthesizer's empty-result path and an empty error.
C26_EmptyQueryAnsweredBySynthesizer ==
    EndedWithEmptyQuery =>
        /\ state.final_answer = EMPTY_RESULT_TEMPLATE
        /\ state.error = ""

\* C26, amended: while the query text is empty the planner dispatches only
\* the query generation; a run that ends with an empty query text was ended
\* by the step budget, its answer is the planner's template for an empty
\* result set, the Synthesizer has not run, and the error is empty.
C26_EmptyQueryEndsByBudget ==
    /\ pc \in {"execute_query", "refine_query", "synthesizer_agent"}
          => state.cypher_query # ""
    /\ EndedWithEmptyQuery =>
          /\ state.decision = "end"
          /\ state.step = state.max_steps + 1
          /\ state.final_answer = FORCED_EMPTY_MESSAGE
          /\ Count(visited, "synthesizer_agent") = 0
          /\ state.neo4j_results = 0
          /\ state.error = ""

\* every query generation of the run yielded empty text and the run ended
C26_Witness ==
    /\ EndedWithEmptyQuery
    /\ Count(visited, "cypher_agent") = MaxSteps - 1
    /\ Count(visited, "execute_query") = 0
    /\ state.final_answer = FORCED_EMPTY_MESSAGE

\* C27: the answer the synthesizer stores for a non-empty result set has at
\* least 10 characters after stripping, whatever the model returned to the
\* first or to the regenerating call and whatever the substitutions removed.
C27_AnswerNonTrivial ==
    (synth_pc = "done" /\ synth_results # << >>)
        => Len(Strip(synth_answer)) >= MinAnswerLen

\* C28: across all runs the bootstrap of the vector index (embedding and
\* storing the node sample) is performed by at most one run, also when the
\* retrieve steps of the runs interleave, and a run that finds the index
\* populated does not bootstrap.
C28_BootstrapAtMostOnce ==
    /\ [](Cardinality(stored) <= 1)
    /\ [][\A r \in Runs :
            (runs[r].at # "bootstrap" /\ runs'[r].at = "bootstrap")
                => index_count = 0]_vars

\* the non-blank lines of a text, stripped
RECURSIVE NonBlank(_)
NonBlank(ls) ==
    IF ls = << >> THEN << >>
    ELSE IF StripWs(Head(ls)) = "" THEN NonBlank(Tail(ls))
    ELSE <<StripWs(Head(ls))>> \o NonBlank(Tail(ls))

StatementLines(text) == NonBlank(Split(text, NEWLINE))

\* line k of ls is a statement line that equals an earlier line
RepeatedAt(ls, k) ==
    /\ IsStatementStart(ls[k])
    /\ \E j \in 1..(k - 1) : ls[j] = ls[k]

HasRepeatedStatement(ls) == \E k \in DOMAIN ls : RepeatedAt(ls, k)

\* the lines before the first repeated statement line
FirstCandidate(ls) ==
    SubSeq(ls, 1, (CHOOSE k \in DOMAIN ls :
                      /\ RepeatedAt(ls, k)
                      /\ \A j \in 1..(k - 1) : ~RepeatedAt(ls, j)) - 1)

\* a occurs in b as a subsequence
RECURSIVE IsSubsequence(_, _)
IsSubsequence(a, b) ==
    IF a = << >> THEN TRUE
    ELSE IF b = << >> THEN FALSE
    ELSE IF Head(a) = Head(b) THEN IsSubsequence(Tail(a), Tail(b))
    ELSE IsSubsequence(a, Tail(b))

\* C29: when the model output repeats a statement line, the returned query
\* contains every line of the first candidate query, in order, and no
\* statement line twice.
C29_FirstOccurrencesKept ==
    (gen_pc = "done" /\ HasRepeatedStatement(StatementLines(gen_response)))
        => /\ IsSubsequence(FirstCandidate(StatementLines(gen_response)),
                            StatementLines(cleaned_query))
           /\ ~HasRepeatedStatement(StatementLines(cleaned_query))

\* C30: if the de-duplicated text holds more than one RETURN, what is
\* returned is the part of it that precedes the second query, and it holds
\* exactly one RETURN.
C30_SingleTerminalClause ==
    [][ (gen_pc = "cut" /\ CountOf(cleaned_query, "RETURN") > 1)
        => /\ StartsWith(cleaned_query, cleaned_query')
           /\ CountOf(cleaned_query', "RETURN") = 1 ]_vars

\* a text with two RETURNs has been cut before its second MATCH
C30_CutMade ==
    /\ gen_pc = "done"
    /\ CountOf(cleaned_query, "RETURN") = 1
    /\ CountOf(Join(unique_lines, NEWLINE), "RETURN") > 1

\* a is an initial part of b
IsPrefix(a, b) == Len(a) <= Len(b) /\ SubSeq(b, 1, Len(a)) = a

EndedAfterOversized ==
    /\ emb_pc \in {"returned", "raised"}
    /\ RequestTooLong(emb_input)

\* C32: when an embedding request fails because its input is oversized,
\* the input is truncated and sent once more, for a single text as for a
\* batch, and a failure of the second request is raised without a third.
C32_TruncateAndRetryOnce ==
    /\ Len(emb_requests) <= 2
    /\ EndedAfterOversized =>
          /\ Len(emb_requests) = 2
          /\ emb_requests[2] = truncated(emb_input)

\* the run is over with an empty result set
EndedEmpty == pc \in {"END", "raised"} /\ state.neo4j_results = 0

\* C33: the synthesizer is never entered with an empty result set, and a
\* run whose results are empty ends only by the forced termination of the
\* step overflow.
C33_EmptyEndsOnlyByOverflow ==
    /\ pc = "synthesizer_agent" => state.neo4j_results # 0
    /\ EndedEmpty =>
          /\ pc = "END"
          /\ state.decision = "end"
          /\ state.step = state.max_steps + 1

\* C33, amended: the synthesizer is never entered with an empty result set,
\* and a run whose results are empty ends either by the forced termination
\* of the step overflow or by the exception of the retriever, of the query
\* generation or of the refinement.
C33_EmptyEndsByOverflowOrException ==
    /\ pc = "synthesizer_agent" => state.neo4j_results # 0
    /\ (pc = "END" /\ state.neo4j_results = 0) =>
          /\ state.decision = "end"
          /\ state.step = state.max_steps + 1
          /\ Count(visited, "synthesizer_agent") = 0
    /\ (pc = "raised" /\ state.neo4j_results = 0) =>
          /\ Last(visited) \in {"retriever_agent", "cypher_agent", "refine_query"}
          /\ state.decision \in {"retrieve", "query", "refine"}

\* every execution of the run returned no record and the run was ended by
\* the step overflow
C33_Witness ==
    /\ pc = "END"
    /\ state.neo4j_results = 0
    /\ state.decision = "end"
    /\ Count(decisions, "execute") >= 2
    /\ \A i \in DOMAIN store_outcomes : store_outcomes[i].ok

\* every execution of the run so far succeeded with zero records
OnlyEmptySuccesses ==
    /\ Len(store_outcomes) > 0
    /\ \A i \in DOMAIN store_outcomes :
          store_outcomes[i].ok /\ store_outcomes[i].n = 0

OutcomeOf(j) == Count(SubSeq(visited, 1, j), "execute_query")

\* the execution that follows the spent refinement failed, and the
\* execution after that one succeeded with 1..100 records
FailedThenSucceededAfterRefinement ==
    \E p \in DOMAIN visited :
        /\ visited[p] = "refine_query"
        /\ OutcomeOf(p) + 2 <= Len(store_outcomes)
        /\ ~store_outcomes[OutcomeOf(p) + 1].ok
        /\ store_outcomes[OutcomeOf(p) + 2].ok
        /\ store_outcomes[OutcomeOf(p) + 2].n \in 1..ResultCap

\* C35: a successful execution leaves a recorded error in place; a run in
\* which the execution after the spent refinement fails and the next one
\* succeeds with 1..100 records ends through the synthesizer, with an
\* answer and a non-empty error.
C35_AnsweredWithError ==
    /\ [][ (pc = "execute_query" /\ Len(store_outcomes') > Len(store_outcomes)
              /\ Last(store_outcomes').ok)
           => state'.error = state.error ]_vars
    /\ []( (pc \in {"END", "raised"} /\ FailedThenSucceededAfterRefinement)
           => /\ Last(visited) = "synthesizer_agent"
              /\ state.final_answer # ""
              /\ state.error # "" )

\* C35, amended: a successful execution leaves a recorded error in place;
\* the run of that scenario has spent its six steps when the records
\* arrive, so it ends by the forced termination, without the synthesizer,
\* with the planner's forced answer and the error of the failed execution.
\* The synthesizer is never entered while an error is recorded.
C35_ForcedAnswerWithError ==
    /\ [][ (pc = "execute_query" /\ Len(store_outcomes') > Len(store_outcomes)
              /\ Last(store_outcomes').ok)
           => state'.error = state.error ]_vars
    /\ []( FailedThenSucceededAfterRefinement
           => /\ pc \in {"planner_decide", "END"}
              /\ state.error = STORE_ERROR
              /\ Count(visited, "synthesizer_agent") = 0
              /\ pc = "END" => /\ state.decision = "end"
                               /\ state.step = state.max_steps + 1
                               /\ state.final_answer # "" )
    /\ [](pc = "synthesizer_agent" => state.error = "")

\* the run of the scenario has ended
C35_Witness ==
    /\ pc = "END"
    /\ FailedThenSucceededAfterRefinement
    /\ state.error = STORE_ERROR
    /\ state.neo4j_results \in 1..ResultCap

\* what the refinement of the run was spent on, as the trace records it
SpentOn(content) ==
    \E i \in DOMAIN state.messages :
        state.messages[i] = [role |-> "refiner", content |-> content]
SpentOnError == SpentOn("Refined query")
SpentOnNarrowing == SpentOn("Refined query for specificity")

PlannerWithinBudgetNext ==
    /\ pc = "planner_decide"
    /\ ~BudgetExceeded(state.step + 1, state.max_steps)

C36_ErrorAfterNarrowing ==
    /\ SpentOnNarrowing
    /\ state.error # ""
    /\ pc = "execute_query"

\* the planner is about to run directly after a refine step
PlannerAfterRefine ==
    /\ pc = "planner_decide"
    /\ Len(visited) > 0
    /\ Last(visited) = "refine_query"

\* C37: the decision that directly follows a refine step is execute, or
\* end when the step budget is exceeded.
C37_ExecuteAfterRefine ==
    [][ PlannerAfterRefine => state'.decision \in {"execute", "end"} ]_vars

\* C37, amended: the decision that directly follows a refine step is end
\* when the step budget is exceeded, query when the refined text is empty,
\* and execute otherwise.
C37_ExecuteOrQueryAfterRefine ==
    [][ PlannerAfterRefine =>
          state'.decision =
              IF BudgetExceeded(state.step + 1, state.max_steps) THEN "end"
              ELSE IF state.cypher_query = "" THEN "query"
              ELSE "execute" ]_vars

\* a refinement returned an empty text and the planner decided query
C37_Witness ==
    /\ Len(visited) >= 2
    /\ visited[Len(visited) - 1] = "refine_query"
    /\ Last(visited) = "planner_decide"
    /\ state.cypher_query = ""
    /\ state.decision = "query"

\* a refinement returned a query and the planner decided execute
C37_RefinedQueryExecuted ==
    /\ Len(visited) >= 2
    /\ visited[Len(visited) - 1] = "refine_query"
    /\ Last(visited) = "planner_decide"
    /\ state.decision = "execute"

\* the run is over and its first execution returned 1..100 records
EndedAfterSmallFirstResult ==
    /\ pc \in {"END", "raised"}
    /\ Len(store_outcomes) >= 1
    /\ store_outcomes[1].ok
    /\ store_outcomes[1].n \in 1..ResultCap

\* C38: the synthesizer is not reached in fewer than 4 planner steps, and
\* a run whose first execution returns 1..100 records ends at step 4 after
\* the decisions retrieve, query, execute, answer, with refinement_count 0
\* and an empty error.
C38_FourStepAnswer ==
    /\ pc = "synthesizer_agent" => state.step >= 4
    /\ EndedAfterSmallFirstResult =>
          /\ state.step = 4
          /\ decisions = <<"retrieve", "query", "execute", "answer">>
          /\ state.refinement_count = 0
          /\ state.error = ""

\* C38, amended: the synthesizer is not reached in fewer than 4 planner
\* steps; a run whose first execution returns 1..100 records executes once
\* and decides retrieve, query as often as the query text came out empty
\* plus once, execute, and then answer, or end if that step is beyond the
\* budget, with refinement_count 0 and an empty error; it is the four-step
\* run when the first query generation returns a text.
C38_AnswerAfterFirstResult ==
    /\ pc = "synthesizer_agent" => state.step >= 4
    /\ EndedAfterSmallFirstResult =>
          LET queries == Count(decisions, "query")
          IN  /\ Len(store_outcomes) = 1
              /\ state.refinement_count = 0
              /\ state.error = ""
              /\ state.step = queries + 3
              /\ Len(decisions) = state.step
              /\ decisions[1] = "retrieve"
              /\ \A i \in 2..(queries + 1) : decisions[i] = "query"
              /\ decisions[queries + 2] = "execute"
              /\ Last(decisions) =
                    IF BudgetExceeded(state.step, state.max_steps)
                    THEN "end" ELSE "answer"
              /\ queries = 1 =>
                    decisions = <<"retrieve", "query", "execute", "answer">>

\* the four-step run, answered from exactly 100 records
C38_Witness ==
    /\ pc = "END"
    /\ store_outcomes = <<[ok |-> TRUE, n |-> ResultCap]>>
    /\ decisions = <<"retrieve", "query", "execute", "answer">>
    /\ state.step = 4

\* the nodes the planner dispatches
DispatchedNodes ==
    {"retriever_agent", "cypher_agent", "execute_query", "refine_query",
     "synthesizer_agent"}

\* C39: the retrieve, query, execute, refine and synthesize steps leave
\* step, max_steps, decision, refinement_count and question as they are,
\* and execute leaves the query and the context as they are.
C39_PlannerOwnsControlFields ==
    [][ /\ pc \in DispatchedNodes =>
              /\ state'.step = state.step
              /\ state'.max_steps = state.max_steps
              /\ state'.decision = state.decision
              /\ state'.refinement_count = state.refinement_count
              /\ state'.question = state.question
        /\ pc = "execute_query" =>
              /\ state'.cypher_query = state.cypher_query
              /\ state'.context = state.context ]_vars

\* a run in which each of the five nodes has run
C39_Witness ==
    /\ pc = "END"
    /\ \A node \in DispatchedNodes : Count(visited, node) > 0
    /\ state.step = MaxSteps
    /\ state.refinement_count = 1
    /\ state.decision = "answer"

=========================================================================
